---- MODULE Spec2Model ----
(***************************************************************************)
(* Signal-to-order execution pipeline of the trading bot: signal intake    *)
(* and deduplication (SignalProcessor), strategy routing                   *)
(* (WebhookController), the pending-signal workflow (PendingSignalService, *)
(* AdminController), order execution (OrderManager) and the position       *)
(* ledger (OrderManager.createPosition / closePosition).                   *)
(*                                                                         *)
(* Row identifiers (uuid v4 in the source) are the row's index in its      *)
(* table. Null columns are 0 for references, "" for text and NullNum for   *)
(* numbers. Quantities and prices are exact rationals [n, d] in lowest     *)
(* terms, standing for the IEEE doubles of the source.                     *)
(***************************************************************************)
EXTENDS Integers, Naturals, Sequences, FiniteSets, TLC

VARIABLES
    clock,           \* Date.now()
    recentSignals,   \* SignalProcessor.recentSignals: fingerprint -> last time (0: no entry)
    strategies,      \* table strategies
    signals,         \* table signals
    pendingSignals,  \* table pending_signals
    orders,          \* table orders
    positions,       \* table positions
    config,          \* table config: the persisted risk settings
    tasks,           \* detached async executions and their position in the code
    responses,       \* HTTP responses sent by the webhook endpoint, with the request's secret
    calls,           \* BinanceClient.retryWithBackoff: the calls and their position in the loop
    deletions        \* DELETE /strategies/:id requests and the status they were answered with

vars == <<clock, recentSignals, strategies, signals, pendingSignals, orders,
          positions, config, tasks, responses, calls, deletions>>

(***************************************************************************)
(* Bounds                                                                  *)
(***************************************************************************)
MaxOrders == 3       \* market orders started in the ledger specification
MaxInFlight == 2     \* executions suspended at a gateway call at one time
MaxSignals == 2      \* webhook submissions
MaxApprovals == 2    \* approve requests of the admin
MaxClock == 2        \* last tick of the clock in the pipeline specification
MaxIntakeSignals == 3 \* webhook submissions in the intake specification
MaxIntakeClock == 5  \* last tick of the clock in the intake specification
MaxRiskSignals == 3  \* webhook submissions in the risk specification
MaxOverrides == 1    \* numeric settings overridden in the config table
MaxAuthSignals == 2  \* webhook submissions in the authentication specification
MaxCalls == 1        \* gateway calls in the retry specification

(***************************************************************************)
(* Exact arithmetic                                                        *)
(***************************************************************************)
Abs(i) == IF i < 0 THEN -i ELSE i

RECURSIVE GCD(_, _)
GCD(a, b) == IF b = 0 THEN a ELSE GCD(b, a % b)

Rat(n, d) ==
    LET g == GCD(Abs(n), Abs(d))
        s == IF d < 0 THEN -1 ELSE 1
    IN  [n |-> (s * n) \div g, d |-> (s * d) \div g]

Num(i) == [n |-> i, d |-> 1]
NullNum == [n |-> 0, d |-> 0]
RAdd(x, y) == Rat(x.n * y.d + y.n * x.d, x.d * y.d)
RSub(x, y) == Rat(x.n * y.d - y.n * x.d, x.d * y.d)
RMul(x, y) == Rat(x.n * y.n, x.d * y.d)
RDiv(x, y) == Rat(x.n * y.d, x.d * y.n)
RLt(x, y) == x.n * y.d < y.n * x.d
RGeq(x, y) == ~RLt(x, y)
\* COALESCE(x, 0)
Coalesce(x) == IF x = NullNum THEN Num(0) ELSE x

(***************************************************************************)
(* IEEE 754 binary64 where the rounding decides: the percentage gates of   *)
(* the risk engine compare (orderValue / availableBalance) * 100 with a    *)
(* limit. A positive double is its 53-bit significand in three limbs       *)
(* h (17 bits), m (18 bits), l (18 bits) and the exponent e of its leading *)
(* bit; zero has h = 0. Rounding is to nearest, ties to even.              *)
(***************************************************************************)
Limb == 262144

FZero == [h |-> 0, m |-> 0, l |-> 0, e |-> 0]

\* the next double above x
FInc(x) ==
    IF x.l + 1 < Limb THEN [x EXCEPT !.l = @ + 1]
    ELSE IF x.m + 1 < Limb THEN [x EXCEPT !.l = 0, !.m = @ + 1]
    ELSE IF x.h + 1 < Limb \div 2 THEN [x EXCEPT !.l = 0, !.m = 0, !.h = @ + 1]
    ELSE [h |-> Limb \div 4, m |-> 0, l |-> 0, e |-> x.e + 1]

\* scale a / b into [1, 2): a / b = (a' / b') * 2^e with b' <= a' < 2b'
RECURSIVE FNormalise(_, _, _)
FNormalise(a, b, e) ==
    IF a >= 2 * b THEN FNormalise(a, 2 * b, e + 1)
    ELSE IF a < b THEN FNormalise(2 * a, b, e - 1)
    ELSE [a |-> a, b |-> b, e |-> e]

\* one step of long division: the next digit in base k and the remainder
FDivStep(r, b, k) == [q |-> (r * k) \div b, r |-> (r * k) % b]

\* the double nearest to a / b, for integers a >= 0, b > 0: 53 bits of the
\* quotient by long division, then the guard bit and the remainder round
\* the result, ties to even
FDiv(a, b) ==
    IF a = 0 THEN FZero
    ELSE LET nz == FNormalise(a, b, 0)
             h1 == FDivStep(nz.a - nz.b, nz.b, 256)
             h2 == FDivStep(h1.r, nz.b, 256)
             m1 == FDivStep(h2.r, nz.b, 512)
             m2 == FDivStep(m1.r, nz.b, 512)
             l1 == FDivStep(m2.r, nz.b, 512)
             l2 == FDivStep(l1.r, nz.b, 512)
             guard == FDivStep(l2.r, nz.b, 2)
             x == [h |-> 65536 + 256 * h1.q + h2.q, m |-> 512 * m1.q + m2.q,
                   l |-> 512 * l1.q + l2.q, e |-> nz.e]
         IN  IF guard.q = 1 /\ (guard.r # 0 \/ x.l % 2 = 1) THEN FInc(x) ELSE x

\* the double nearest to x * 100
FTimes100(x) ==
    IF x.h = 0 THEN FZero
    ELSE LET l100 == x.l * 100
             m100 == x.m * 100 + l100 \div Limb
             h100 == x.h * 100 + m100 \div Limb
             lo == l100 % Limb
             mid == m100 % Limb
             k == IF h100 >= 64 * (Limb \div 2) THEN 7 ELSE 6
             p == 2 ^ k
             up == Limb \div p
             y == [h |-> h100 \div p,
                   m |-> (h100 % p) * up + mid \div p,
                   l |-> (mid % p) * up + lo \div p,
                   e |-> x.e + k]
             rem == lo % p
         IN  IF 2 * rem > p \/ (2 * rem = p /\ y.l % 2 = 1) THEN FInc(y) ELSE y

\* x > y on doubles
FGt(x, y) ==
    IF x.h = 0 THEN FALSE
    ELSE IF y.h = 0 THEN TRUE
    ELSE IF x.e # y.e THEN x.e > y.e
    ELSE IF x.h # y.h THEN x.h > y.h
    ELSE IF x.m # y.m THEN x.m > y.m
    ELSE x.l > y.l

\* the double of a rational that a double holds exactly or to the nearest
ToDouble(x) == FDiv(x.n, x.d)

(***************************************************************************)
(* Gateway calls: BinanceClient.retryWithBackoff                           *)
(***************************************************************************)
\* retryWithBackoff(fn, maxRetries = 3, baseDelay = 1000)
MaxRetries == 3
BaseDelay == 1000

\* error.code of what fn() throws; "" stands for fn() returning
TransientCodes == {"ETIMEDOUT", "ECONNRESET"}
GatewayOutcomes == {""} \cup TransientCodes \cup {"INVALID_ORDER", "INSUFFICIENT_BALANCE"}

\* a catch block that gives up on no code before the last attempt
NonRetryableCodes_None == {}

\* the codes the catch block rethrows at once
NonRetryableCodes == {"INVALID_ORDER", "INSUFFICIENT_BALANCE"}

\* the call at the head of the for loop: attempt = 0, no attempt made yet
NewCall == [pc |-> "attempt", attempt |-> 0, errors |-> << >>, delays |-> << >>,
            thrown |-> "", created |-> 0]

\* what the exchange did with the request of an attempt: it creates the order
\* when fn() returns, creates none when it turns the request down, and either
\* when the attempt ends in a transient error (the answer may be what is lost)
ExchangeAccepted(code) ==
    IF code = "" THEN {TRUE}
    ELSE IF code \in NonRetryableCodes THEN {FALSE}
    ELSE BOOLEAN

\* the catch block stopping when attempt reaches maxRetries - 1
AttemptFails_ThreeAttempts(call, code) ==
    LET failed == [call EXCEPT !.errors = Append(@, code)]
    IN  IF code \in NonRetryableCodes
        THEN [failed EXCEPT !.pc = "thrown", !.thrown = code]
        ELSE IF call.attempt = MaxRetries - 1
        THEN [failed EXCEPT !.pc = "thrown", !.thrown = code]
        ELSE [failed EXCEPT !.pc = "sleep",
                            !.delays = Append(@, BaseDelay * 2 ^ call.attempt)]

\* the catch block of the loop body: fn() threw an error with this code
AttemptFails(call, code) ==
    LET failed == [call EXCEPT !.errors = Append(@, code)]
    IN  IF code \in NonRetryableCodes
        THEN [failed EXCEPT !.pc = "thrown", !.thrown = code]
        ELSE IF call.attempt = MaxRetries
        THEN [failed EXCEPT !.pc = "thrown", !.thrown = code]
        ELSE [failed EXCEPT !.pc = "sleep",
                            !.delays = Append(@, BaseDelay * 2 ^ call.attempt)]

\* sleep(delay) is over: attempt++ and the loop condition attempt <= maxRetries
NextAttempt(call) ==
    IF call.attempt + 1 <= MaxRetries
    THEN [call EXCEPT !.attempt = @ + 1, !.pc = "attempt"]
    ELSE [call EXCEPT !.attempt = @ + 1, !.pc = "thrown",
                      !.thrown = call.errors[Len(call.errors)]]

(***************************************************************************)
(* Tables                                                                  *)
(***************************************************************************)
Min(S) == CHOOSE x \in S : \A y \in S : x <= y

\* db.prepare('SELECT * FROM positions WHERE symbol = ? AND status = ?').get(symbol, 'OPEN')
OpenPositionIds(pos, symbol) ==
    {i \in 1..Len(pos) : pos[i].symbol = symbol /\ pos[i].status = "OPEN"}

\* a lookup that never finds the OPEN position
OpenPositionId_NotFound(pos, symbol) == 0

\* the row .get() returns: its id, 0 when there is none
OpenPositionId(pos, symbol) ==
    IF OpenPositionIds(pos, symbol) = {} THEN 0 ELSE Min(OpenPositionIds(pos, symbol))

\* request.leverage || 5
DefaultLeverage == 5
LeverageOf(request) == IF request.leverage = 0 THEN DefaultLeverage ELSE request.leverage

(***************************************************************************)
(* Position ledger                                                         *)
(***************************************************************************)
\* liquidation price at creation: LONG entry*(1 - 1/leverage), SHORT entry*(1 + 1/leverage)
LiquidationPrice(trading_type, positionSide, entryPrice, leverage) ==
    IF trading_type # "FUTURE" THEN NullNum
    ELSE IF positionSide = "LONG"
         THEN RMul(entryPrice, RSub(Num(1), Rat(1, leverage)))
         ELSE RMul(entryPrice, RAdd(Num(1), Rat(1, leverage)))

\* the mean of the two prices, not weighted by quantity
AvgEntryPrice_Unweighted(existing, request, entryPrice) ==
    RDiv(RAdd(existing.entry_price, entryPrice), Num(2))

\* the re-averaged entry price of an extended position
AvgEntryPrice(existing, request, entryPrice) ==
    RDiv(RAdd(RMul(existing.quantity, existing.entry_price),
              RMul(request.quantity, entryPrice)),
         RAdd(existing.quantity, request.quantity))

\* a createPosition that extends the OPEN position whatever its side
createPosition_AnySide(pos, orderId, request, entryPrice) ==
    LET ex == OpenPositionId(pos, request.symbol)
    IN  IF ex # 0
        THEN [threw |-> FALSE,
              positions |-> [pos EXCEPT
                  ![ex].quantity = RAdd(pos[ex].quantity, request.quantity),
                  ![ex].entry_price = AvgEntryPrice(pos[ex], request, entryPrice)]]
        ELSE [threw |-> FALSE, positions |-> pos]

\* OrderManager.createPosition: the ledger after the call, and whether it threw
createPosition(pos, orderId, request, entryPrice) ==
    LET positionSide == IF request.side = "BUY" THEN "LONG" ELSE "SHORT"
        ex == OpenPositionId(pos, request.symbol)
    IN  IF ex # 0
        THEN IF pos[ex].side # positionSide
             THEN [threw |-> TRUE, positions |-> pos]
             ELSE [threw |-> FALSE,
                   positions |-> [pos EXCEPT
                       ![ex].quantity = RAdd(pos[ex].quantity, request.quantity),
                       ![ex].entry_price = AvgEntryPrice(pos[ex], request, entryPrice)]]
        ELSE [threw |-> FALSE,
              positions |-> Append(pos,
                  [id |-> Len(pos) + 1,
                   entry_order_id |-> orderId,
                   exit_order_id |-> 0,
                   symbol |-> request.symbol,
                   side |-> positionSide,
                   trading_type |-> request.trading_type,
                   leverage |-> IF request.trading_type = "FUTURE"
                                THEN LeverageOf(request) ELSE 0,
                   quantity |-> request.quantity,
                   entry_price |-> entryPrice,
                   liquidation_price |-> LiquidationPrice(request.trading_type,
                                             positionSide, entryPrice, LeverageOf(request)),
                   exit_price |-> NullNum,
                   status |-> "OPEN",
                   realized_pnl |-> Num(0)])]

\* realized P&L taken over the whole position instead of the fill
RealizedPnL_WholePosition(position, request, exitPrice) ==
    IF position.side = "LONG"
    THEN RMul(RSub(exitPrice, position.entry_price), position.quantity)
    ELSE RMul(RSub(position.entry_price, exitPrice), position.quantity)

\* realized P&L of a closing fill, as closePosition computes it
RealizedPnL(position, request, exitPrice) ==
    IF position.side = "LONG"
    THEN RMul(RSub(exitPrice, position.entry_price), request.quantity)
    ELSE RMul(RSub(position.entry_price, exitPrice), request.quantity)

\* UPDATE positions SET status = 'CLOSED', exit_price, realized_pnl, exit_order_id
CloseEntirePosition(position, orderId, exitPrice, realizedPnL) ==
    [position EXCEPT !.status = "CLOSED",
                     !.exit_price = exitPrice,
                     !.realized_pnl = realizedPnL,
                     !.exit_order_id = orderId]

\* a partial close that drops the liquidation price of what remains
PartiallyClosePosition_DropsLiquidation(position, request, realizedPnL) ==
    [position EXCEPT !.quantity = RSub(position.quantity, request.quantity),
                     !.realized_pnl = RAdd(Coalesce(position.realized_pnl), realizedPnL),
                     !.liquidation_price = NullNum]

\* UPDATE positions SET quantity = ?, realized_pnl = COALESCE(realized_pnl, 0) + ?
PartiallyClosePosition(position, request, realizedPnL) ==
    [position EXCEPT !.quantity = RSub(position.quantity, request.quantity),
                     !.realized_pnl = RAdd(Coalesce(position.realized_pnl), realizedPnL)]

\* OrderManager.closePosition: the ledger after the call, and whether it threw
closePosition(pos, orderId, request, exitPrice) ==
    LET p == OpenPositionId(pos, request.symbol)
    IN  IF p = 0 THEN [threw |-> FALSE, positions |-> pos]
        ELSE IF pos[p].side = "LONG" /\ request.side # "SELL"
             THEN [threw |-> TRUE, positions |-> pos]
        ELSE IF pos[p].side = "SHORT" /\ request.side # "BUY"
             THEN [threw |-> TRUE, positions |-> pos]
        ELSE LET realizedPnL == RealizedPnL(pos[p], request, exitPrice)
             IN  IF RGeq(request.quantity, pos[p].quantity)
                 THEN [threw |-> FALSE,
                       positions |-> [pos EXCEPT ![p] =
                           CloseEntirePosition(pos[p], orderId, exitPrice, realizedPnL)]]
                 ELSE [threw |-> FALSE,
                       positions |-> [pos EXCEPT ![p] =
                           PartiallyClosePosition(pos[p], request, realizedPnL)]]

\* a fill handling that opens a SHORT for a SELL on the leveraged venue
handleFilledOrder_SellOpensShort(pos, orderId, request, fillPrice) ==
    IF request.side = "BUY" \/ request.trading_type = "FUTURE"
    THEN createPosition(pos, orderId, request, fillPrice).positions
    ELSE closePosition(pos, orderId, request, fillPrice).positions

\* OrderManager.handleFilledOrder: BUY opens or extends, SELL closes, on both
\* venues; an error of the ledger is logged and swallowed
handleFilledOrder(pos, orderId, request, fillPrice) ==
    IF request.side = "BUY"
    THEN createPosition(pos, orderId, request, fillPrice).positions
    ELSE closePosition(pos, orderId, request, fillPrice).positions

\* handleFilledOrder, catch block: the ledger operation threw
FillThrew(pos, orderId, request, fillPrice) ==
    IF request.side = "BUY"
    THEN createPosition(pos, orderId, request, fillPrice).threw
    ELSE closePosition(pos, orderId, request, fillPrice).threw


(***************************************************************************)
(* Risk engine                                                             *)
(***************************************************************************)
\* config.trading defaults (src/config/index.ts)
DefaultPositionSizePercent == 2
MaxPositionSizePercent == 5
MaxTotalExposurePercent == 50
MaxDailyLoss == 1000

\* getConfigValue: the persisted override, the static default when there is none
getConfigValue(value, defaultValue) == IF value = NullNum THEN defaultValue ELSE value

\* RiskManager.getRiskConfig: the settings as persisted at the time of the call
getRiskConfig(cfg) ==
    [enabled |-> cfg.enabled,
     maxPositionSizePercent |->
         getConfigValue(cfg.maxPositionSizePercent, Num(MaxPositionSizePercent)),
     maxTotalExposurePercent |->
         getConfigValue(cfg.maxTotalExposurePercent, Num(MaxTotalExposurePercent)),
     maxDailyLoss |-> getConfigValue(cfg.maxDailyLoss, Num(MaxDailyLoss))]

\* gate 1, skipped for a human-approved pending signal
TradingEnabledGate(riskConfig, bypassEnabledCheck) ==
    bypassEnabledCheck \/ riskConfig.enabled

RECURSIVE SumOver(_, _, _)
SumOver(f(_), pos, i) ==
    IF i = 0 THEN Num(0) ELSE RAdd(SumOver(f, pos, i - 1), f(pos[i]))

\* RiskManager.getCurrentExposure: open positions marked at the live price
getCurrentExposure(pos, currentPrice) ==
    LET value(p) == IF p.status = "OPEN" THEN RMul(p.quantity, currentPrice) ELSE Num(0)
    IN  SumOver(value, pos, Len(pos))

\* RiskManager.getDailyLoss: SUM(realized_pnl) of the positions closed today
getDailyLoss(pos) ==
    LET pnl(p) == IF p.status = "CLOSED" THEN Coalesce(p.realized_pnl) ELSE Num(0)
    IN  SumOver(pnl, pos, Len(pos))

RAbs(x) == [n |-> Abs(x.n), d |-> x.d]

\* (x / whole) * 100 in double arithmetic
Percent(x, whole) == FTimes100(ToDouble(RDiv(x, whole)))

\* checkRiskLimits looking at the balance before the limits
checkRiskLimits_BalanceFirst(riskConfig, pos, calculatedQuantity, currentPrice, availableBalance) ==
    LET orderValue == RMul(calculatedQuantity, currentPrice)
        totalExposure == RAdd(getCurrentExposure(pos, currentPrice), orderValue)
    IN  IF RLt(availableBalance, orderValue)
        THEN "Insufficient balance"
        ELSE IF FGt(Percent(orderValue, availableBalance),
                    ToDouble(riskConfig.maxPositionSizePercent))
        THEN "Position size exceeds max"
        ELSE IF FGt(Percent(totalExposure, availableBalance),
                    ToDouble(riskConfig.maxTotalExposurePercent))
        THEN "Total exposure exceeds max"
        ELSE IF RLt(riskConfig.maxDailyLoss, RAbs(getDailyLoss(pos)))
        THEN "Daily loss exceeds max"
        ELSE ""

\* RiskManager.checkRiskLimits after the enabled gate: "" when allowed, else the reason
checkRiskLimits(riskConfig, pos, calculatedQuantity, currentPrice, availableBalance) ==
    LET orderValue == RMul(calculatedQuantity, currentPrice)
        totalExposure == RAdd(getCurrentExposure(pos, currentPrice), orderValue)
    IN  IF FGt(Percent(orderValue, availableBalance),
               ToDouble(riskConfig.maxPositionSizePercent))
        THEN "Position size exceeds max"
        ELSE IF FGt(Percent(totalExposure, availableBalance),
                    ToDouble(riskConfig.maxTotalExposurePercent))
        THEN "Total exposure exceeds max"
        ELSE IF RLt(riskConfig.maxDailyLoss, RAbs(getDailyLoss(pos)))
        THEN "Daily loss exceeds max"
        ELSE IF RLt(availableBalance, orderValue)
        THEN "Insufficient balance"
        ELSE ""

\* Math.floor(quantity * 100000000) / 100000000, by long division
RECURSIVE FloorDigits(_, _, _)
FloorDigits(r, d, k) ==
    IF k = 0 \/ r = 0 THEN Num(0)
    ELSE RAdd(Rat((r * 10) \div d, 10),
              RDiv(FloorDigits((r * 10) % d, d, k - 1), Num(10)))

Floor8(q) == RAdd(Num(q.n \div q.d), FloorDigits(q.n % q.d, q.d, 8))

\* the quantity worth percent % of the balance, floored to 8 decimals
PositionSizeAt(availableBalance, currentPrice, percent) ==
    Floor8(RDiv(RDiv(RMul(availableBalance, percent), Num(100)), currentPrice))

\* RiskManager.calculatePositionSize when the signal carries no quantity: the
\* percentage is config.trading.defaultPositionSizePercent of the static config
calculatePositionSize(availableBalance, currentPrice) ==
    PositionSizeAt(availableBalance, currentPrice, Num(DefaultPositionSizePercent))

(***************************************************************************)
(* Signal intake                                                           *)
(***************************************************************************)
\* config.trading.preventDuplicatesWindowMs, in ticks of the model's clock
PreventDuplicatesWindowMs == 2

Actions == {"buy", "sell", "close"}
OrderTypes == {"market", "limit"}

\* SignalProcessor.getSignalKey
getSignalKey(signal) == <<signal.action, signal.symbol, signal.orderType>>

\* isDuplicate without the window: any remembered fingerprint is a duplicate
isDuplicate_NoWindow(recent, signal, now) ==
    recent[getSignalKey(signal)] # 0

\* SignalProcessor.isDuplicate
isDuplicate(recent, signal, now) ==
    LET lastTime == recent[getSignalKey(signal)]
    IN  IF lastTime = 0 THEN FALSE
        ELSE now - lastTime < PreventDuplicatesWindowMs

\* SignalProcessor.cleanupRecentSignals
cleanupRecentSignals(recent, now) ==
    [k \in DOMAIN recent |->
        IF recent[k] # 0 /\ now - recent[k] > PreventDuplicatesWindowMs
        THEN 0 ELSE recent[k]]

\* markAsRecent whose write lands after the handler has yielded
markAsRecent_AfterSuspension(recent, signal, now) == recent

\* SignalProcessor.markAsRecent
markAsRecent(recent, signal, now) ==
    cleanupRecentSignals([recent EXCEPT ![getSignalKey(signal)] = now], now)

\* a catch block that records the fingerprint of the rejected signal
keepRecent_Refreshes(recent, signal, now) ==
    [recent EXCEPT ![getSignalKey(signal)] = now]

\* processSignal, catch block: the fingerprint map of a rejected signal
keepRecent(recent, signal, now) == recent

\* SignalProcessor.validateSignal: "" when valid (the webhook schema has
\* already rejected non-positive price, quantity and stop loss)
validateSignal(signal) ==
    IF signal.orderType = "limit" /\ signal.price = NullNum
    THEN "Price is required for limit orders"
    ELSE ""

\* StrategyService.getStrategyByName: the row's id, 0 when there is none
getStrategyByName(strats, name) ==
    LET S == {i \in 1..Len(strats) : strats[i].name = name}
    IN  IF S = {} THEN 0 ELSE Min(S)

Max(S) == CHOOSE x \in S : \A y \in S : x >= y

\* getStrategiesByType('automatic').filter(enabled)[0], newest first
FirstEnabledAutomatic(strats) ==
    LET S == {i \in 1..Len(strats) : strats[i].type = "automatic" /\ strats[i].enabled}
    IN  IF S = {} THEN 0 ELSE Max(S)

\* the strategy row determineStrategy settles on, 0 when there is none
ResolveStrategy(strats, signal) ==
    LET named == IF signal.strategy = "" THEN 0
                 ELSE getStrategyByName(strats, signal.strategy)
        usable == IF named # 0 /\ strats[named].enabled THEN named ELSE 0
        default == getStrategyByName(strats, "Default Automatic")
    IN  IF usable # 0 THEN usable
        ELSE IF default # 0 THEN default
        ELSE FirstEnabledAutomatic(strats)

\* determineStrategy answering requiresApproval = false for every strategy
determineStrategy_NeverApproval(strats, signal) ==
    LET s == ResolveStrategy(strats, signal)
    IN  IF s = 0
        THEN [strategyId |-> 0, strategyType |-> "", requiresApproval |-> FALSE]
        ELSE [strategyId |-> s, strategyType |-> strats[s].type,
              requiresApproval |-> FALSE]

\* SignalProcessor.determineStrategy
determineStrategy(strats, signal) ==
    LET s == ResolveStrategy(strats, signal)
    IN  IF s = 0
        THEN [strategyId |-> 0, strategyType |-> "", requiresApproval |-> FALSE]
        ELSE [strategyId |-> s, strategyType |-> strats[s].type,
              requiresApproval |-> strats[s].type = "manual"]

\* SignalProcessor.saveSignal
saveSignal(sigs, signal, errorMessage, strategyId, now) ==
    Append(sigs, [id |-> Len(sigs) + 1,
                  received_at |-> now,
                  strategy_id |-> strategyId,
                  action |-> signal.action,
                  symbol |-> signal.symbol,
                  payload |-> signal,
                  processed |-> errorMessage = "",
                  order_id |-> 0,
                  error_message |-> errorMessage,
                  updates |-> 0])

\* SignalProcessor.updateSignalStatus (updates counts the calls for the row)
updateSignalStatus(sigs, signalId, orderId, errorMessage) ==
    IF signalId \notin 1..Len(sigs) THEN sigs
    ELSE [sigs EXCEPT ![signalId].processed = (errorMessage = ""),
                      ![signalId].order_id = orderId,
                      ![signalId].error_message = errorMessage,
                      ![signalId].updates = @ + 1]

\* processSignal whose catch block rethrows without saving the failed signal
processSignal_DropsRejected(sigs, recent, strats, signal, now) ==
    LET dup == isDuplicate(recent, signal, now)
        invalid == validateSignal(signal)
        error == IF dup THEN "Duplicate signal" ELSE invalid
        route == determineStrategy(strats, signal)
    IN  IF error # ""
        THEN [error |-> error,
              signalId |-> Len(sigs) + 1,
              route |-> [strategyId |-> 0, strategyType |-> "", requiresApproval |-> FALSE],
              signals |-> sigs,
              recent |-> recent]
        ELSE [error |-> "",
              signalId |-> Len(sigs) + 1,
              route |-> route,
              signals |-> saveSignal(sigs, signal, "", route.strategyId, now),
              recent |-> markAsRecent(recent, signal, now)]

\* SignalProcessor.processSignal: the error ("" when accepted), the routing
\* result, and the signals table and fingerprint map after the call
processSignal(sigs, recent, strats, signal, now) ==
    LET dup == isDuplicate(recent, signal, now)
        invalid == validateSignal(signal)
        error == IF dup THEN "Duplicate signal" ELSE invalid
        route == determineStrategy(strats, signal)
    IN  IF error # ""
        THEN [error |-> error,
              signalId |-> Len(sigs) + 1,
              route |-> [strategyId |-> 0, strategyType |-> "", requiresApproval |-> FALSE],
              signals |-> saveSignal(sigs, signal, error, 0, now),
              recent |-> keepRecent(recent, signal, now)]
        ELSE [error |-> "",
              signalId |-> Len(sigs) + 1,
              route |-> route,
              signals |-> saveSignal(sigs, signal, "", route.strategyId, now),
              recent |-> markAsRecent(recent, signal, now)]


(***************************************************************************)
(* Pending-signal workflow                                                 *)
(***************************************************************************)
\* PendingSignalService.createPendingSignal
createPendingSignal(pend, strategyId, signalId, signal) ==
    Append(pend, [id |-> Len(pend) + 1,
                  strategy_id |-> strategyId,
                  signal_id |-> signalId,
                  signal_data |-> signal,
                  status |-> "pending",
                  error_message |-> "",
                  order_id |-> 0,
                  reviewed_at |-> 0,
                  reviewed_by |-> ""])

\* PendingSignalService.approvePendingSignal
approvePendingSignal(pend, id, reviewedBy, now) ==
    IF pend[id].status # "pending" THEN pend
    ELSE [pend EXCEPT ![id].status = "approved",
                      ![id].reviewed_at = now,
                      ![id].reviewed_by = reviewedBy]

\* PendingSignalService.rejectPendingSignal
rejectPendingSignal(pend, id, reviewedBy, now) ==
    IF pend[id].status # "pending" THEN pend
    ELSE [pend EXCEPT ![id].status = "rejected",
                      ![id].reviewed_at = now,
                      ![id].reviewed_by = reviewedBy]

\* a failure putting the signal back to pending
markAsFailed_RevertsToPending(pend, id, errorMessage) ==
    IF id \notin 1..Len(pend) THEN pend
    ELSE [pend EXCEPT ![id].status = "pending", ![id].error_message = errorMessage]

\* PendingSignalService.markAsFailed
markAsFailed(pend, id, errorMessage) ==
    IF id \notin 1..Len(pend) THEN pend
    ELSE [pend EXCEPT ![id].status = "failed", ![id].error_message = errorMessage]

\* PendingSignalService.updateOrderId
updateOrderId(pend, id, orderId) ==
    IF id \notin 1..Len(pend) THEN pend
    ELSE [pend EXCEPT ![id].order_id = orderId]

(***************************************************************************)
(* Order execution. An execution is a task; d is the database and the      *)
(* task table, and every operator runs task t from one suspension point    *)
(* (an awaited gateway call) to the next, or to its end.                   *)
(***************************************************************************)
NoSignal == [action |-> "", symbol |-> "", strategy |-> "", orderType |-> "",
             price |-> NullNum, quantity |-> NullNum]

NoRequest == [symbol |-> "", side |-> "", type |-> "", quantity |-> NullNum,
              price |-> NullNum, strategyId |-> 0, trading_type |-> "", leverage |-> 0]

NoRiskConfig == [enabled |-> FALSE, maxPositionSizePercent |-> NullNum,
                 maxTotalExposurePercent |-> NullNum, maxDailyLoss |-> NullNum]

NewTask(kind, signalId, pendingId, signal, strategyId, bypassEnabledCheck, isManualApproval) ==
    [kind |-> kind, signalId |-> signalId, pendingId |-> pendingId, signal |-> signal,
     strategyId |-> strategyId, bypassEnabledCheck |-> bypassEnabledCheck,
     isManualApproval |-> isManualApproval, pc |-> "start",
     trading_type |-> "", leverage |-> 0, quantity |-> NullNum,
     riskConfig |-> NoRiskConfig, currentPrice |-> NullNum, availableBalance |-> NullNum,
     request |-> NoRequest, riskPassed |-> TRUE,
     rows |-> 0, placed |-> 0, fills |-> 0, fillThrew |-> FALSE,
     outcome |-> "", orderId |-> 0]

DB == [tasks |-> tasks, orders |-> orders, signals |-> signals,
       pending |-> pendingSignals, positions |-> positions]

\* OrderManager.getOrderSide
getOrderSide(signal) == IF signal.action = "buy" THEN "BUY" ELSE "SELL"

\* the end of the detached task: WebhookController.executeOrderAsync logs;
\* AdminController.executeApprovedSignalAsync records the outcome
Settle(d, t, outcome, orderId, errorMessage) ==
    LET task == d.tasks[t]
        pend == IF task.kind # "approved" THEN d.pending
                ELSE IF outcome = "ok" THEN updateOrderId(d.pending, task.pendingId, orderId)
                ELSE markAsFailed(d.pending, task.pendingId, errorMessage)
    IN  [d EXCEPT !.pending = pend,
                  !.tasks[t].pc = "done",
                  !.tasks[t].outcome = outcome,
                  !.tasks[t].orderId = orderId]

FromSignal(task) == task.kind \in {"webhook", "approved"}

\* the catch block that rethrows without recording the error on the signal
ExecFailed_SignalUntouched(d, t, errorMessage) ==
    Settle(d, t, "error", 0, errorMessage)

\* executeFromSignal, catch block: an error other than the risk rejection
ExecFailed(d, t, errorMessage) ==
    IF FromSignal(d.tasks[t])
    THEN Settle([d EXCEPT !.signals =
                     updateSignalStatus(d.signals, d.tasks[t].signalId, 0, errorMessage)],
                t, "error", 0, errorMessage)
    ELSE Settle(d, t, "error", 0, errorMessage)

\* the risk rejection that raises without recording anything on the signal
RiskRejected_SignalUntouched(d, t, reason) ==
    LET task == d.tasks[t]
        orderId == Len(d.orders) + 1
        row == [id |-> orderId, binance_order_id |-> 0, symbol |-> task.signal.symbol,
                side |-> getOrderSide(task.signal),
                type |-> IF task.signal.orderType = "limit" THEN "LIMIT" ELSE "MARKET",
                quantity |-> task.quantity, price |-> task.signal.price,
                status |-> "REJECTED", filled_quantity |-> NullNum,
                avg_fill_price |-> NullNum, error_message |-> reason,
                strategy_id |-> task.strategyId, risk_passed |-> FALSE,
                trading_type |-> task.trading_type]
    IN  Settle([d EXCEPT !.orders = Append(d.orders, row),
                         !.tasks[t].rows = @ + 1,
                         !.tasks[t].riskPassed = FALSE],
               t, "risk", orderId, reason)

\* executeFromSignal, risk rejection: the REJECTED audit row
RiskRejected(d, t, reason) ==
    LET task == d.tasks[t]
        orderId == Len(d.orders) + 1
        row == [id |-> orderId, binance_order_id |-> 0, symbol |-> task.signal.symbol,
                side |-> getOrderSide(task.signal),
                type |-> IF task.signal.orderType = "limit" THEN "LIMIT" ELSE "MARKET",
                quantity |-> task.quantity, price |-> task.signal.price,
                status |-> "REJECTED", filled_quantity |-> NullNum,
                avg_fill_price |-> NullNum, error_message |-> reason,
                strategy_id |-> task.strategyId, risk_passed |-> FALSE,
                trading_type |-> task.trading_type]
    IN  Settle([d EXCEPT !.orders = Append(d.orders, row),
                         !.signals = updateSignalStatus(d.signals, task.signalId, orderId, reason),
                         !.tasks[t].rows = @ + 1,
                         !.tasks[t].riskPassed = FALSE],
               t, "risk", orderId, reason)

\* checkRiskLimits up to its first gateway call: the settings are read now
EnterRisk(d, t, cfg) ==
    LET riskConfig == getRiskConfig(cfg)
    IN  IF ~TradingEnabledGate(riskConfig, d.tasks[t].bypassEnabledCheck)
        THEN RiskRejected(d, t, "Trading is disabled")
        ELSE [d EXCEPT !.tasks[t].pc = "risk", !.tasks[t].riskConfig = riskConfig]

\* executeFromSignal up to its first gateway call
StartExecution(d, t, strats, cfg) ==
    LET task == d.tasks[t]
        known == task.strategyId \in 1..Len(strats)
        d1 == [d EXCEPT
                 !.tasks[t].trading_type =
                     IF known THEN strats[task.strategyId].trading_type ELSE "SPOT",
                 !.tasks[t].leverage =
                     IF known /\ strats[task.strategyId].leverage # 0
                     THEN strats[task.strategyId].leverage ELSE DefaultLeverage]
    IN  IF task.signal.quantity # NullNum
        THEN EnterRisk([d1 EXCEPT !.tasks[t].quantity = task.signal.quantity], t, cfg)
        ELSE [d1 EXCEPT !.tasks[t].pc = "size"]

\* executeMarketOrder / executeLimitOrder up to the first gateway call
BeginOrder(d, t, request, riskPassed) ==
    [d EXCEPT !.tasks[t].request = request,
              !.tasks[t].riskPassed = riskPassed,
              !.tasks[t].pc = IF request.trading_type = "FUTURE" THEN "leverage" ELSE "place"]

\* executeFromSignal after an approving risk check
RiskPassed(d, t) ==
    LET task == d.tasks[t]
        request == [symbol |-> task.signal.symbol, side |-> getOrderSide(task.signal),
                    type |-> IF task.signal.orderType = "market" THEN "MARKET" ELSE "LIMIT",
                    quantity |-> task.quantity,
                    price |-> IF task.signal.orderType = "market" THEN NullNum
                              ELSE task.signal.price,
                    strategyId |-> task.strategyId,
                    trading_type |-> task.trading_type, leverage |-> task.leverage]
    IN  IF task.signal.orderType # "market" /\ task.signal.price = NullNum
        THEN ExecFailed(d, t, "Price is required for limit orders")
        ELSE BeginOrder(d, t, request, TRUE)

\* executeMarketOrder / executeLimitOrder, catch block
OrderFailed(d, t, errorMessage) ==
    LET task == d.tasks[t]
        orderId == Len(d.orders) + 1
        row == [id |-> orderId, binance_order_id |-> 0, symbol |-> task.request.symbol,
                side |-> task.request.side, type |-> task.request.type,
                quantity |-> task.request.quantity, price |-> task.request.price,
                status |-> "REJECTED", filled_quantity |-> NullNum,
                avg_fill_price |-> NullNum, error_message |-> errorMessage,
                strategy_id |-> task.request.strategyId, risk_passed |-> task.riskPassed,
                trading_type |-> task.request.trading_type]
    IN  IF task.isManualApproval
        THEN ExecFailed(d, t, errorMessage)
        ELSE ExecFailed([d EXCEPT !.orders = Append(d.orders, row),
                                  !.tasks[t].rows = @ + 1],
                        t, errorMessage)

\* the placement whose fill handling lets the ledger's error escape
OrderPlaced_FillErrorEscapes(d, t, binanceOrderId, status, avgFillPrice) ==
    LET task == d.tasks[t]
        orderId == Len(d.orders) + 1
        market == task.request.type = "MARKET"
        row == [id |-> orderId, binance_order_id |-> binanceOrderId,
                symbol |-> task.request.symbol,
                side |-> task.request.side, type |-> task.request.type,
                quantity |-> task.request.quantity, price |-> task.request.price,
                status |-> status,
                filled_quantity |-> IF ~market THEN NullNum
                                    ELSE IF status = "FILLED" THEN task.request.quantity
                                    ELSE Num(0),
                avg_fill_price |-> IF market THEN avgFillPrice ELSE NullNum,
                error_message |-> "",
                strategy_id |-> task.request.strategyId, risk_passed |-> task.riskPassed,
                trading_type |-> task.request.trading_type]
        filled == market /\ status = "FILLED"
        threw == filled /\ FillThrew(d.positions, orderId, task.request, avgFillPrice)
        d1 == [d EXCEPT !.orders = Append(d.orders, row),
                        !.tasks[t].rows = @ + 1,
                        !.tasks[t].fills = IF filled THEN @ + 1 ELSE @,
                        !.tasks[t].fillThrew = threw,
                        !.positions =
                            IF filled
                            THEN handleFilledOrder(d.positions, orderId, task.request, avgFillPrice)
                            ELSE d.positions]
    IN  IF threw THEN ExecFailed(d1, t, "Position error")
        ELSE IF FromSignal(task)
        THEN Settle([d1 EXCEPT !.signals =
                         updateSignalStatus(d1.signals, task.signalId, orderId, "")],
                    t, "ok", orderId, "")
        ELSE Settle(d1, t, "ok", orderId, "")

\* executeMarketOrder / executeLimitOrder after the gateway returned an order
OrderPlaced(d, t, binanceOrderId, status, avgFillPrice) ==
    LET task == d.tasks[t]
        orderId == Len(d.orders) + 1
        market == task.request.type = "MARKET"
        row == [id |-> orderId, binance_order_id |-> binanceOrderId,
                symbol |-> task.request.symbol,
                side |-> task.request.side, type |-> task.request.type,
                quantity |-> task.request.quantity, price |-> task.request.price,
                status |-> status,
                filled_quantity |-> IF ~market THEN NullNum
                                    ELSE IF status = "FILLED" THEN task.request.quantity
                                    ELSE Num(0),
                avg_fill_price |-> IF market THEN avgFillPrice ELSE NullNum,
                error_message |-> "",
                strategy_id |-> task.request.strategyId, risk_passed |-> task.riskPassed,
                trading_type |-> task.request.trading_type]
        filled == market /\ status = "FILLED"
        d1 == [d EXCEPT !.orders = Append(d.orders, row),
                        !.tasks[t].rows = @ + 1,
                        !.tasks[t].fills = IF filled THEN @ + 1 ELSE @,
                        !.tasks[t].fillThrew =
                            filled /\ FillThrew(d.positions, orderId, task.request,
                                                avgFillPrice),
                        !.positions =
                            IF filled
                            THEN handleFilledOrder(d.positions, orderId, task.request, avgFillPrice)
                            ELSE d.positions]
    IN  IF FromSignal(task)
        THEN Settle([d1 EXCEPT !.signals =
                         updateSignalStatus(d1.signals, task.signalId, orderId, "")],
                    t, "ok", orderId, "")
        ELSE Settle(d1, t, "ok", orderId, "")


(***************************************************************************)
(* Inputs                                                                  *)
(***************************************************************************)
Symbols == {"BTCUSDT", "ETHUSDT"}
Prices == {Num(100), Num(110)}
Quantities == {Num(1), Num(2)}
Balances == {Num(1000), Num(100000)}

\* the alerts of the pipeline specification
Alert(action, strategy, orderType, price, quantity) ==
    [action |-> action, symbol |-> "BTCUSDT", strategy |-> strategy,
     orderType |-> orderType, price |-> price, quantity |-> quantity]

Alerts ==
    {Alert("buy", "", "market", NullNum, Num(1)),
     Alert("sell", "", "limit", Num(100), NullNum),
     Alert("buy", "Default Manual", "market", NullNum, Num(1))}

\* the alerts of the intake specification: two fingerprints, the first
\* one sent with and without a strategy name, and an invalid alert
IntakeAlerts ==
    {Alert("buy", "", "market", NullNum, Num(1)),
     Alert("buy", "Default Manual", "market", NullNum, Num(1)),
     Alert("sell", "", "limit", NullNum, Num(1))}

\* the alerts of the risk specification
RiskAlerts ==
    {Alert("buy", "", "market", NullNum, Num(7)),
     Alert("buy", "", "market", NullNum, Num(5)),
     Alert("buy", "", "market", NullNum, NullNum),
     Alert("sell", "", "market", NullNum, Num(5)),
     Alert("close", "", "market", NullNum, NullNum)}

\* the balance the gateway reports in the risk specification
RiskBalances == {Num(1000)}

\* the fill prices of the risk specification
RiskPrices == {Num(10), Num(11)}

\* the order requests of the ledger specification
Request(symbol, side, quantity, trading_type) ==
    [symbol |-> symbol, side |-> side, type |-> "MARKET", quantity |-> quantity,
     price |-> NullNum, strategyId |-> 0, trading_type |-> trading_type, leverage |-> 0]

Requests ==
    {Request("BTCUSDT", "BUY", q, "SPOT") : q \in Quantities}
    \cup {Request("BTCUSDT", "SELL", Num(2), "SPOT"),
          Request("ETHUSDT", "BUY", Num(1), "SPOT")}

Keys == {<<a, sym, ot>> : a \in Actions, sym \in Symbols, ot \in OrderTypes}

InFlight == {t \in 1..Len(tasks) : tasks[t].pc # "done"}

Apply(d) ==
    /\ tasks' = d.tasks
    /\ orders' = d.orders
    /\ signals' = d.signals
    /\ pendingSignals' = d.pending
    /\ positions' = d.positions

(***************************************************************************)
(* Initial state: the process starts on a database that holds the two      *)
(* seeded strategies, the manual one enabled by the admin or not, and the  *)
(* trading switch as the admin left it; the other tables are empty.        *)
(***************************************************************************)
SeededStrategies(manualEnabled) ==
    << [id |-> 1, name |-> "Default Automatic", type |-> "automatic",
        enabled |-> TRUE, trading_type |-> "SPOT", leverage |-> 5],
       [id |-> 2, name |-> "Default Manual", type |-> "manual",
        enabled |-> manualEnabled, trading_type |-> "SPOT", leverage |-> 5] >>

Init ==
    /\ clock = 1
    /\ recentSignals = [k \in Keys |-> 0]
    /\ \E manualEnabled \in BOOLEAN : strategies = SeededStrategies(manualEnabled)
    /\ signals = << >>
    /\ pendingSignals = << >>
    /\ orders = << >>
    /\ positions = << >>
    /\ config \in [enabled : BOOLEAN, defaultPositionSizePercent : {NullNum},
                  maxPositionSizePercent : {NullNum}, maxTotalExposurePercent : {NullNum},
                  maxDailyLoss : {NullNum}]
    /\ tasks = << >>
    /\ responses = << >>
    /\ calls = << >>
    /\ deletions = << >>

\* an OPEN position the database holds when the process starts
OpenRow(side) ==
    [id |-> 1, entry_order_id |-> 0, exit_order_id |-> 0, symbol |-> "BTCUSDT",
     side |-> side, trading_type |-> "SPOT", leverage |-> 0, quantity |-> Num(2),
     entry_price |-> Num(100), liquidation_price |-> NullNum, exit_price |-> NullNum,
     status |-> "OPEN", realized_pnl |-> Num(0)]

\* positions tables the schema admits: side IN ('LONG', 'SHORT')
FillLedgers == {<< >>} \cup {<<OpenRow(side)>> : side \in {"LONG", "SHORT"}}

\* the process starts on a database that holds positions
InitFill ==
    /\ clock = 1
    /\ recentSignals = [k \in Keys |-> 0]
    /\ strategies = SeededStrategies(FALSE)
    /\ signals = << >>
    /\ pendingSignals = << >>
    /\ orders = << >>
    /\ positions \in FillLedgers
    /\ config = [enabled |-> TRUE, defaultPositionSizePercent |-> NullNum,
                 maxPositionSizePercent |-> NullNum, maxTotalExposurePercent |-> NullNum,
                 maxDailyLoss |-> NullNum]
    /\ tasks = << >>
    /\ responses = << >>
    /\ calls = << >>
    /\ deletions = << >>

\* a position closed today with the given realized profit or loss
ClosedRow(realized_pnl) ==
    [id |-> 1, entry_order_id |-> 0, exit_order_id |-> 0, symbol |-> "BTCUSDT",
     side |-> "LONG", trading_type |-> "SPOT", leverage |-> 0, quantity |-> Num(2),
     entry_price |-> Num(100), liquidation_price |-> NullNum, exit_price |-> Num(100),
     status |-> "CLOSED", realized_pnl |-> realized_pnl]

\* ledgers with and without exposure, with and without a loss today
GateLedgers ==
    {<< >>, <<OpenRow("LONG")>>, <<ClosedRow(Num(0 - 5))>>, <<ClosedRow(Num(5))>>}

\* the process starts on persisted risk settings and a ledger
InitGates ==
    /\ clock = 1
    /\ recentSignals = [k \in Keys |-> 0]
    /\ strategies = SeededStrategies(FALSE)
    /\ signals = << >>
    /\ pendingSignals = << >>
    /\ orders = << >>
    /\ positions \in GateLedgers
    /\ config \in [enabled : BOOLEAN, defaultPositionSizePercent : {NullNum},
                  maxPositionSizePercent : {NullNum, Num(500)},
                  maxTotalExposurePercent : {NullNum, Num(500)},
                  maxDailyLoss : {NullNum, Num(1)}]
    /\ tasks = << >>
    /\ responses = << >>
    /\ calls = << >>
    /\ deletions = << >>

(***************************************************************************)
(* Operations                                                              *)
(***************************************************************************)
\* time passes
Tick(last) ==
    /\ clock < last
    /\ clock' = clock + 1
    /\ UNCHANGED <<calls, deletions, recentSignals, strategies, signals, pendingSignals, orders,
                   positions, config, tasks, responses>>

\* config.tradingView.webhookSecret
WebhookSecret == "configured"

\* the x-webhook-secret header of a request: the configured value, another
\* value, or "" for a request without the header
Secrets == {WebhookSecret, "other", ""}

\* authenticateWebhook: TRUE when it calls next(), FALSE when it throws
\* AuthenticationError
authenticateWebhook(secret) == ~(secret = "" \/ secret # WebhookSecret)

\* an error handler answering 200 whatever the error
StatusCode_AlwaysOk(error) == 200

\* the status code of a TradingError
StatusCode(error) == IF error = "Duplicate signal" THEN 409 ELSE 400

\* the handler awaiting the execution before it responds
Webhook_AwaitsExecution(secret, signal, limit) ==
    /\ Len(signals) < limit
    /\ Cardinality(InFlight) < MaxInFlight
    /\ LET r == processSignal(signals, recentSignals, strategies, signal, clock)
           task == NewTask("webhook", r.signalId, 0, signal, 0, FALSE, FALSE)
           started == StartExecution([DB EXCEPT !.signals = r.signals,
                                               !.tasks = Append(tasks, task)],
                                     Len(tasks) + 1, strategies, config)
       IN  /\ recentSignals' = r.recent
           /\ IF r.error # ""
              THEN /\ responses' = Append(responses,
                          [status |-> StatusCode(r.error), secret |-> secret,
                           signalId |-> r.signalId,
                           strategyId |-> 0, strategyType |-> "",
                           requiresApproval |-> FALSE, error |-> r.error])
                   /\ signals' = r.signals
                   /\ UNCHANGED <<pendingSignals, orders, positions, tasks>>
              ELSE IF r.route.requiresApproval /\ r.route.strategyId # 0
              THEN /\ responses' = Append(responses,
                          [status |-> 200, secret |-> secret, signalId |-> r.signalId,
                           strategyId |-> r.route.strategyId,
                           strategyType |-> r.route.strategyType,
                           requiresApproval |-> TRUE, error |-> ""])
                   /\ pendingSignals' = createPendingSignal(pendingSignals,
                                            r.route.strategyId, r.signalId, signal)
                   /\ signals' = r.signals
                   /\ UNCHANGED <<orders, positions, tasks>>
              ELSE /\ responses' = Append(responses,
                          [status |-> IF started.tasks[Len(tasks) + 1].pc = "done"
                                      THEN 500 ELSE 200,
                           secret |-> secret, signalId |-> r.signalId,
                           strategyId |-> r.route.strategyId,
                           strategyType |-> r.route.strategyType,
                           requiresApproval |-> r.route.requiresApproval, error |-> ""])
                   /\ Apply(started)
    /\ UNCHANGED <<calls, deletions, clock, strategies, config>>

\* WebhookController.handleTradingViewWebhook, called by the route of POST
\* /tradingview for every request: authenticateWebhook is commented out of the
\* chain, secret is the x-webhook-secret header of the request
Webhook(secret, signal, limit) ==
    /\ Len(signals) < limit
    /\ Cardinality(InFlight) < MaxInFlight
    /\ LET r == processSignal(signals, recentSignals, strategies, signal, clock)
           task == NewTask("webhook", r.signalId, 0, signal, 0, FALSE, FALSE)
       IN  /\ recentSignals' = r.recent
           /\ IF r.error # ""
              THEN /\ responses' = Append(responses,
                          [status |-> StatusCode(r.error), secret |-> secret,
                           signalId |-> r.signalId,
                           strategyId |-> 0, strategyType |-> "",
                           requiresApproval |-> FALSE, error |-> r.error])
                   /\ signals' = r.signals
                   /\ UNCHANGED <<pendingSignals, orders, positions, tasks>>
              ELSE /\ responses' = Append(responses,
                          [status |-> 200, secret |-> secret, signalId |-> r.signalId,
                           strategyId |-> r.route.strategyId,
                           strategyType |-> r.route.strategyType,
                           requiresApproval |-> r.route.requiresApproval, error |-> ""])
                   /\ IF r.route.requiresApproval /\ r.route.strategyId # 0
                      THEN /\ pendingSignals' = createPendingSignal(pendingSignals,
                                                    r.route.strategyId, r.signalId, signal)
                           /\ signals' = r.signals
                           /\ UNCHANGED <<orders, positions, tasks>>
                      ELSE Apply(StartExecution(
                               [DB EXCEPT !.signals = r.signals,
                                          !.tasks = Append(tasks, task)],
                               Len(tasks) + 1, strategies, config))
    /\ UNCHANGED <<calls, deletions, clock, strategies, config>>

ApprovalCount == Cardinality({t \in 1..Len(tasks) : tasks[t].kind = "approved"})

\* approvePendingSignal executing without bypassEnabledCheck
ApprovePendingSignal_NoBypass(id) ==
    /\ id \in 1..Len(pendingSignals)
    /\ ApprovalCount < MaxApprovals
    /\ Cardinality(InFlight) < MaxInFlight
    /\ LET pend == approvePendingSignal(pendingSignals, id, "admin", clock)
           task == NewTask("approved", pend[id].signal_id, id, pend[id].signal_data,
                           pend[id].strategy_id, FALSE, TRUE)
       IN  Apply(StartExecution([DB EXCEPT !.pending = pend,
                                           !.tasks = Append(tasks, task)],
                                Len(tasks) + 1, strategies, config))
    /\ UNCHANGED <<calls, deletions, clock, recentSignals, strategies, config, responses>>

\* AdminController.approvePendingSignal
ApprovePendingSignal(id) ==
    /\ id \in 1..Len(pendingSignals)
    /\ ApprovalCount < MaxApprovals
    /\ Cardinality(InFlight) < MaxInFlight
    /\ LET pend == approvePendingSignal(pendingSignals, id, "admin", clock)
           task == NewTask("approved", pend[id].signal_id, id, pend[id].signal_data,
                           pend[id].strategy_id, TRUE, TRUE)
       IN  Apply(StartExecution([DB EXCEPT !.pending = pend,
                                           !.tasks = Append(tasks, task)],
                                Len(tasks) + 1, strategies, config))
    /\ UNCHANGED <<calls, deletions, clock, recentSignals, strategies, config, responses>>

\* AdminController.rejectPendingSignal
RejectPendingSignal(id) ==
    /\ id \in 1..Len(pendingSignals)
    /\ pendingSignals' = rejectPendingSignal(pendingSignals, id, "admin", clock)
    /\ UNCHANGED <<calls, deletions, clock, recentSignals, strategies, signals, orders, positions,
                   config, tasks, responses>>

\* a request body of PUT /risk-config: "undefined" and NullNum are absent keys
RiskBody(enabled, defaultPositionSizePercent, maxPositionSizePercent, maxDailyLoss) ==
    [enabled |-> enabled, defaultPositionSizePercent |-> defaultPositionSizePercent,
     maxPositionSizePercent |-> maxPositionSizePercent,
     maxTotalExposurePercent |-> NullNum, maxDailyLoss |-> maxDailyLoss]

\* the keys of the config table that hold a numeric override
Overrides(cfg) ==
    {k \in {"defaultPositionSizePercent", "maxPositionSizePercent",
            "maxTotalExposurePercent", "maxDailyLoss"} : cfg[k] # NullNum}

\* the request bodies of the risk specification
RiskBodies ==
    {RiskBody("true", NullNum, NullNum, NullNum),
     RiskBody("undefined", Num(4), NullNum, NullNum),
     RiskBody("undefined", NullNum, Num(7), NullNum),
     RiskBody("undefined", NullNum, NullNum, Num(1))}

\* AdminController.updateRiskConfig: INSERT OR REPLACE of every key in the body
UpdateRiskConfig(body) ==
    /\ config' =
           [enabled |-> IF body.enabled = "undefined" THEN config.enabled
                        ELSE body.enabled = "true",
            defaultPositionSizePercent |->
                getConfigValue(body.defaultPositionSizePercent, config.defaultPositionSizePercent),
            maxPositionSizePercent |->
                getConfigValue(body.maxPositionSizePercent, config.maxPositionSizePercent),
            maxTotalExposurePercent |->
                getConfigValue(body.maxTotalExposurePercent, config.maxTotalExposurePercent),
            maxDailyLoss |-> getConfigValue(body.maxDailyLoss, config.maxDailyLoss)]
    /\ config' # config
    /\ Cardinality(Overrides(config')) <= MaxOverrides
    /\ UNCHANGED <<calls, deletions, clock, recentSignals, strategies, signals,
                   pendingSignals, orders,
                   positions, tasks, responses>>

\* the place of a deleted strategy: what a lookup of a missing row yields
NoStrategy ==
    [id |-> 0, name |-> "", type |-> "", enabled |-> FALSE,
     trading_type |-> "SPOT", leverage |-> 0]

\* StrategyService.toggleStrategy
ToggleStrategy(id) ==
    /\ id \in 1..Len(strategies)
    /\ strategies[id] # NoStrategy
    /\ strategies' = [strategies EXCEPT ![id].enabled = ~@]
    /\ UNCHANGED <<calls, deletions, clock, recentSignals, signals, pendingSignals, orders,
                   positions, config, tasks, responses>>

\* calculatePositionSize: getBalance and getPrice return, or one of them throws
SizeReturns(t, ok, availableBalance, currentPrice) ==
    /\ t \in 1..Len(tasks)
    /\ tasks[t].pc = "size"
    /\ IF ok
       THEN Apply(EnterRisk([DB EXCEPT !.tasks[t].quantity =
                                 calculatePositionSize(availableBalance, currentPrice)],
                            t, config))
       ELSE Apply(ExecFailed(DB, t, "Binance API error"))
    /\ UNCHANGED <<calls, deletions, clock, recentSignals, strategies, config, responses>>

\* checkRiskLimits: getPrice and getBalance return, or one of them throws
RiskReturns(t, ok, availableBalance, currentPrice) ==
    /\ t \in 1..Len(tasks)
    /\ tasks[t].pc = "risk"
    /\ LET reason == checkRiskLimits(tasks[t].riskConfig, positions, tasks[t].quantity,
                                     currentPrice, availableBalance)
           d == [DB EXCEPT !.tasks[t].currentPrice = currentPrice,
                           !.tasks[t].availableBalance = availableBalance]
       IN  IF ~ok THEN Apply(ExecFailed(DB, t, "Binance API error"))
           ELSE IF reason # "" THEN Apply(RiskRejected(d, t, reason))
           ELSE Apply(RiskPassed(d, t))
    /\ UNCHANGED <<calls, deletions, clock, recentSignals, strategies, config, responses>>

\* setFuturesLeverage returns or throws
LeverageReturns(t, ok) ==
    /\ t \in 1..Len(tasks)
    /\ tasks[t].pc = "leverage"
    /\ IF ok THEN Apply([DB EXCEPT !.tasks[t].pc = "place"])
       ELSE Apply(OrderFailed(DB, t, "Binance API error"))
    /\ UNCHANGED <<calls, deletions, clock, recentSignals, strategies, config, responses>>

\* the gateway's order call returns an order or throws
OrderReturns(t, ok, status, fillPrice) ==
    /\ t \in 1..Len(tasks)
    /\ tasks[t].pc = "place"
    /\ LET d == [DB EXCEPT !.tasks[t].placed = @ + 1]
       IN  IF ok
           THEN Apply(OrderPlaced(d, t, Len(orders) + 1, status,
                                  IF status = "FILLED" THEN fillPrice ELSE Num(0)))
           ELSE Apply(OrderFailed(d, t, "Binance API error"))
    /\ UNCHANGED <<calls, deletions, clock, recentSignals, strategies, config, responses>>

\* OrderManager.executeMarketOrder called for an approved order
ExecuteMarketOrder(request) ==
    /\ Len(tasks) < MaxOrders
    /\ Cardinality(InFlight) < MaxInFlight
    /\ Apply(BeginOrder([DB EXCEPT !.tasks = Append(tasks,
                             NewTask("order", 0, 0, NoSignal, 0, FALSE, FALSE))],
                        Len(tasks) + 1, request, TRUE))
    /\ UNCHANGED <<calls, deletions, clock, recentSignals, strategies, config, responses>>

\* OrderManager.closePositionWithOrder
ClosePositionWithOrder(positionId, symbol, quantity) ==
    /\ positionId \in 1..Len(positions)
    /\ Len(tasks) < MaxOrders
    /\ Cardinality(InFlight) < MaxInFlight
    /\ LET position == positions[positionId]
           request == [symbol |-> symbol,
                       side |-> IF position.side = "LONG" THEN "SELL" ELSE "BUY",
                       type |-> "MARKET", quantity |-> quantity, price |-> NullNum,
                       strategyId |-> 0, trading_type |-> position.trading_type,
                       leverage |-> position.leverage]
       IN  Apply(BeginOrder([DB EXCEPT !.tasks = Append(tasks,
                                 NewTask("close", 0, 0, NoSignal, 0, FALSE, FALSE))],
                            Len(tasks) + 1, request, TRUE))
    /\ UNCHANGED <<calls, deletions, clock, recentSignals, strategies, config, responses>>

GatewayStatuses == {"FILLED", "EXPIRED"}

\* a gateway method calls retryWithBackoff
RetryWithBackoff ==
    /\ Len(calls) < MaxCalls
    /\ calls' = Append(calls, NewCall)
    /\ UNCHANGED <<deletions, clock, recentSignals, strategies, signals, pendingSignals, orders,
                   positions, config, tasks, responses>>

\* await fn() is over: this.client.order(...) returned, or threw an error
\* with this code; accepted tells whether the exchange created the order
FnReturns(c, code, accepted) ==
    /\ c \in 1..Len(calls)
    /\ calls[c].pc = "attempt"
    /\ accepted \in ExchangeAccepted(code)
    /\ LET call == [calls[c] EXCEPT !.created = IF accepted THEN @ + 1 ELSE @]
       IN  calls' = [calls EXCEPT ![c] = IF code = "" THEN [call EXCEPT !.pc = "returned"]
                                         ELSE AttemptFails(call, code)]
    /\ UNCHANGED <<deletions, clock, recentSignals, strategies, signals, pendingSignals, orders,
                   positions, config, tasks, responses>>

\* await this.sleep(delay) is over
SleepReturns(c) ==
    /\ c \in 1..Len(calls)
    /\ calls[c].pc = "sleep"
    /\ calls' = [calls EXCEPT ![c] = NextAttempt(@)]
    /\ UNCHANGED <<deletions, clock, recentSignals, strategies, signals, pendingSignals, orders,
                   positions, config, tasks, responses>>

(***************************************************************************)
(* Specifications                                                          *)
(***************************************************************************)
\* the pipeline: intake, routing, approval and execution
Next ==
    \/ Tick(MaxClock)
    \/ \E signal \in Alerts : Webhook(WebhookSecret, signal, MaxSignals)
    \/ \E id \in 1..MaxSignals : ApprovePendingSignal(id)
    \/ \E id \in 1..MaxSignals : RejectPendingSignal(id)
    \/ \E t \in 1..(MaxSignals + MaxApprovals), ok \in BOOLEAN :
           SizeReturns(t, ok, Num(100000), Num(100))
    \/ \E t \in 1..(MaxSignals + MaxApprovals), ok \in BOOLEAN, b \in Balances :
           RiskReturns(t, ok, b, Num(100))
    \/ \E t \in 1..(MaxSignals + MaxApprovals), ok \in BOOLEAN, status \in GatewayStatuses :
           OrderReturns(t, ok, status, Num(100))

Spec == Init /\ [][Next]_vars

\* the gateway call task t awaits returns or throws
GatewayReturns(t) ==
    \/ \E ok \in BOOLEAN : SizeReturns(t, ok, Num(100000), Num(100))
    \/ \E ok \in BOOLEAN, b \in Balances : RiskReturns(t, ok, b, Num(100))
    \/ \E ok \in BOOLEAN, status \in GatewayStatuses : OrderReturns(t, ok, status, Num(100))

MaxLiveSignals == 1   \* alerts in the approval runs

\* an alert for the manual strategy whose quantity the risk engine computes
LiveAlerts == {Alert("buy", "Default Manual", "market", NullNum, NullNum)}

\* alerts for the manual strategy, the admin's decisions and the gateway
NextLive ==
    \/ \E signal \in LiveAlerts : Webhook(WebhookSecret, signal, MaxLiveSignals)
    \/ \E id \in 1..MaxLiveSignals : ApprovePendingSignal(id)
    \/ \E id \in 1..MaxLiveSignals : RejectPendingSignal(id)
    \/ \E t \in 1..(MaxLiveSignals + MaxApprovals) : GatewayReturns(t)

\* approvals when every gateway call eventually returns
SpecLive ==
    /\ Init /\ [][NextLive]_vars
    /\ \A t \in 1..(MaxLiveSignals + MaxApprovals) : WF_vars(GatewayReturns(t))

\* the ledger: market orders that passed the risk check, and their fills
NextLedger ==
    \/ \E request \in Requests : ExecuteMarketOrder(request)
    \/ \E id \in 1..Len(positions) :
           ClosePositionWithOrder(id, positions[id].symbol, Num(1))
    \/ \E t \in 1..MaxOrders, ok \in BOOLEAN, p \in Prices :
           OrderReturns(t, ok, "FILLED", p)

SpecLedger == Init /\ [][NextLedger]_vars

\* intake: submissions spread over more than one deduplication window
NextIntake ==
    \/ Tick(MaxIntakeClock)
    \/ \E signal \in IntakeAlerts : Webhook(WebhookSecret, signal, MaxIntakeSignals)
    \/ \E t \in 1..MaxIntakeSignals, ok \in BOOLEAN :
           RiskReturns(t, ok, Num(100000), Num(100))
    \/ \E t \in 1..MaxIntakeSignals, ok \in BOOLEAN :
           OrderReturns(t, ok, "FILLED", Num(100))

SpecIntake == Init /\ [][NextIntake]_vars

\* risk gating: sizing, the gates and the fills, under admin overrides
NextRisk ==
    \/ \E body \in RiskBodies : UpdateRiskConfig(body)
    \/ \E signal \in RiskAlerts : Webhook(WebhookSecret, signal, MaxRiskSignals)
    \/ \E t \in 1..MaxRiskSignals, b \in RiskBalances : SizeReturns(t, TRUE, b, Num(10))
    \/ \E t \in 1..MaxRiskSignals, b \in RiskBalances : RiskReturns(t, TRUE, b, Num(10))
    \/ \E t \in 1..MaxRiskSignals, p \in RiskPrices : OrderReturns(t, TRUE, "FILLED", p)

SpecRisk == Init /\ [][NextRisk]_vars

\* authentication: requests with and without the configured secret
NextAuth ==
    \/ \E secret \in Secrets, signal \in Alerts : Webhook(secret, signal, MaxAuthSignals)
    \/ \E t \in 1..MaxAuthSignals, ok \in BOOLEAN :
           RiskReturns(t, ok, Num(100000), Num(100))
    \/ \E t \in 1..MaxAuthSignals, ok \in BOOLEAN :
           OrderReturns(t, ok, "FILLED", Num(100))

SpecAuth == Init /\ [][NextAuth]_vars

\* fills on a ledger that holds a position of either side
NextFill ==
    \/ \E request \in Requests : ExecuteMarketOrder(request)
    \/ \E t \in 1..MaxOrders, p \in Prices : OrderReturns(t, TRUE, "FILLED", p)

SpecFill == InitFill /\ [][NextFill]_vars

\* gateway calls under failures of the exchange
NextRetry ==
    \/ RetryWithBackoff
    \/ \E c \in 1..MaxCalls, code \in GatewayOutcomes, accepted \in BOOLEAN :
           FnReturns(c, code, accepted)
    \/ \E c \in 1..MaxCalls : SleepReturns(c)

SpecRetry == Init /\ [][NextRetry]_vars


(***************************************************************************)
(* Properties: pending-signal workflow and routing (specification Spec)    *)
(***************************************************************************)
\* the executeFromSignal calls made for pending signal id
ExecutionsOf(id) ==
    {t \in 1..Len(tasks) : tasks[t].kind = "approved" /\ tasks[t].pendingId = id}

\* C1: over any sequence of approve requests each pending signal causes at
\* most one execution; an approve on a signal already reviewed triggers no
\* further executeFromSignal call.
C1_AtMostOneExecution ==
    \A id \in 1..Len(pendingSignals) : Cardinality(ExecutionsOf(id)) <= 1

\* C2: for a pending signal in status rejected no executeFromSignal call has
\* been made, whatever approve and reject requests followed the rejection.
C2_NoExecutionOnceRejected ==
    \A id \in 1..Len(pendingSignals) :
        pendingSignals[id].status = "rejected" => ExecutionsOf(id) = {}

\* C3: approved, rejected and failed are terminal: no step changes the
\* status of a pending signal that has left pending.
C3_TerminalStatus ==
    [][\A id \in 1..Len(pendingSignals) :
          pendingSignals[id].status # "pending"
              => pendingSignals'[id].status = pendingSignals[id].status]_vars

\* the signals Signal Intake accepted with a manual strategy
Manual(signalId) ==
    /\ signals[signalId].strategy_id # 0
    /\ strategies[signals[signalId].strategy_id].type = "manual"

PendingOf(signalId) ==
    {id \in 1..Len(pendingSignals) : pendingSignals[id].signal_id = signalId}

\* C4: requiresApproval is answered exactly for the signals resolved to a
\* manual strategy; such a signal gets one pending signal and is executed
\* only by tasks that an approve request started.
C4_ManualNeedsApproval ==
    /\ \A i \in 1..Len(responses) :
           responses[i].status = 200 =>
               /\ responses[i].requiresApproval <=> Manual(responses[i].signalId)
               /\ Manual(responses[i].signalId)
                      <=> Cardinality(PendingOf(responses[i].signalId)) = 1
    /\ \A t \in 1..Len(tasks) :
           (FromSignal(tasks[t]) /\ Manual(tasks[t].signalId)) =>
               /\ tasks[t].kind = "approved"
               /\ tasks[t].pendingId \in PendingOf(tasks[t].signalId)
               /\ pendingSignals[tasks[t].pendingId].reviewed_by = "admin"

\* C4 witness: the order of a manual signal was placed after its approval
C4_Witness ==
    \E t \in 1..Len(tasks) :
        /\ tasks[t].kind = "approved"
        /\ Manual(tasks[t].signalId)
        /\ tasks[t].placed = 1
        /\ tasks[t].outcome = "ok"

\* C5: a finished executeFromSignal call has persisted exactly one Order
\* row, except the failed execution of a manually approved pending signal,
\* which persisted none and left the pending signal failed.
C5_OneOrderRowPerExecution ==
    \A t \in 1..Len(tasks) :
        (FromSignal(tasks[t]) /\ tasks[t].pc = "done") =>
            IF tasks[t].isManualApproval /\ tasks[t].outcome # "ok"
            THEN /\ tasks[t].rows = 0
                 /\ pendingSignals[tasks[t].pendingId].status = "failed"
            ELSE tasks[t].rows = 1

(***************************************************************************)
(* Properties: position ledger (specification SpecLedger)                  *)
(***************************************************************************)
\* C6: at most one OPEN position per symbol.
C6_OneOpenPositionPerSymbol ==
    \A symbol \in Symbols : Cardinality(OpenPositionIds(positions, symbol)) <= 1

FilledBuys(symbol) ==
    {o \in 1..Len(orders) : /\ orders[o].symbol = symbol
                            /\ orders[o].side = "BUY"
                            /\ orders[o].status = "FILLED"}

\* C6 witness: a symbol was bought again after its position was closed
C6_Witness ==
    \E symbol \in Symbols :
        /\ Cardinality(FilledBuys(symbol)) >= 2
        /\ Cardinality(OpenPositionIds(positions, symbol)) = 1
        /\ \E i \in 1..Len(positions) :
               positions[i].symbol = symbol /\ positions[i].status = "CLOSED"

\* the market order whose fill this step hands to the ledger
Fill(row) ==
    /\ orders' = Append(orders, row)
    /\ row.type = "MARKET"
    /\ row.status = "FILLED"

\* C7: the fill that closes a position leaves the cumulative realized P&L:
\* what the earlier partial closes accumulated plus the P&L of this fill.
C7_CumulativePnLOnClose ==
    [][\A i \in 1..Len(positions) :
          (positions[i].status = "OPEN" /\ positions'[i].status = "CLOSED") =>
              positions'[i].realized_pnl =
                  RAdd(positions[i].realized_pnl,
                       RMul(RSub(positions'[i].exit_price, positions[i].entry_price),
                            orders'[positions'[i].exit_order_id].quantity))]_vars

\* C8: a BUY fill on a symbol with an OPEN LONG position adds no position:
\* the OPEN position gets the summed quantity and the quantity-weighted
\* average entry price.
C8_SameSideFillReaverages ==
    [][\A i \in 1..Len(positions) :
          (/\ positions[i].status = "OPEN"
           /\ positions[i].side = "LONG"
           /\ Len(orders') = Len(orders) + 1
           /\ Fill(orders'[Len(orders')])
           /\ orders'[Len(orders')].side = "BUY"
           /\ orders'[Len(orders')].symbol = positions[i].symbol) =>
              LET fill == orders'[Len(orders')]
                  oldQty == positions[i].quantity
                  value == RAdd(RMul(oldQty, positions[i].entry_price),
                                RMul(fill.quantity, fill.avg_fill_price))
              IN  /\ Len(positions') = Len(positions)
                  /\ positions'[i].status = "OPEN"
                  /\ positions'[i].quantity = RAdd(oldQty, fill.quantity)
                  /\ RMul(positions'[i].entry_price, positions'[i].quantity) = value
                  /\ \A j \in 1..Len(positions) : j # i => positions'[j] = positions[j]]_vars

\* C8 witness: LONG 1 @ 100 extended by BUY 1 @ 110 is one position, 2 @ 105
C8_Witness ==
    \E i \in 1..Len(positions) :
        /\ positions[i].status = "OPEN"
        /\ positions[i].quantity = Num(2)
        /\ positions[i].entry_price = Num(105)
        /\ OpenPositionIds(positions, positions[i].symbol) = {i}

\* C9: a SELL fill smaller than the OPEN LONG position is a partial close:
\* the position stays OPEN with the quantity reduced by the fill, the same
\* entry price, and realized_pnl raised by (exitPrice - entryPrice) * fillQty.
C9_PartialClose ==
    [][\A i \in 1..Len(positions) :
          (/\ positions[i].status = "OPEN"
           /\ positions[i].side = "LONG"
           /\ Len(orders') = Len(orders) + 1
           /\ Fill(orders'[Len(orders')])
           /\ orders'[Len(orders')].side = "SELL"
           /\ orders'[Len(orders')].symbol = positions[i].symbol
           /\ RLt(orders'[Len(orders')].quantity, positions[i].quantity)) =>
              LET fill == orders'[Len(orders')]
              IN  /\ positions'[i].status = "OPEN"
                  /\ RAdd(positions'[i].quantity, fill.quantity) = positions[i].quantity
                  /\ positions'[i].entry_price = positions[i].entry_price
                  /\ RSub(positions'[i].realized_pnl, positions[i].realized_pnl) =
                         RMul(RSub(fill.avg_fill_price, positions[i].entry_price),
                              fill.quantity)]_vars

\* C9 witness: LONG 2 @ 105 reduced by SELL 1 @ 110 is OPEN, quantity 1, P&L 5
C9_Witness ==
    \E i \in 1..Len(positions) :
        /\ positions[i].status = "OPEN"
        /\ positions[i].quantity = Num(1)
        /\ positions[i].entry_price = Num(105)
        /\ positions[i].realized_pnl = Num(5)

(***************************************************************************)
(* Properties: deduplication (specification SpecIntake)                    *)
(***************************************************************************)
\* every submission is answered once and leaves one Signal row, so response i
\* answers the submission stored as signal i
Accepted(i) == responses[i].status = 200

Duplicate(i) == responses[i].status = 409 /\ responses[i].error = "Duplicate signal"

Fingerprint(i) == getSignalKey(signals[i].payload)

\* the accepted submissions with row j's fingerprint that came before it
EarlierAccepted(j) ==
    {i \in 1..(j - 1) : Accepted(i) /\ Fingerprint(i) = Fingerprint(j)}

\* C10: a valid submission that arrives less than the window after the last
\* accepted one with its fingerprint fails as a duplicate; one that arrives
\* more than the window after it is accepted.
C10_DedupWindow ==
    \A j \in 1..Len(responses) :
        (validateSignal(signals[j].payload) = "" /\ EarlierAccepted(j) # {}) =>
            LET gap == signals[j].received_at
                         - signals[Max(EarlierAccepted(j))].received_at
            IN  /\ gap < PreventDuplicatesWindowMs => Duplicate(j)
                /\ gap > PreventDuplicatesWindowMs => Accepted(j)

\* C10 witness: three submissions with one fingerprint; the second, inside
\* the window, failed as a duplicate and the third, after it, was accepted
C10_Witness ==
    /\ Len(responses) = 3
    /\ Fingerprint(1) = Fingerprint(2) /\ Fingerprint(2) = Fingerprint(3)
    /\ Accepted(1)
    /\ Duplicate(2)
    /\ signals[2].received_at - signals[1].received_at < PreventDuplicatesWindowMs
    /\ Accepted(3)
    /\ signals[3].received_at - signals[1].received_at > PreventDuplicatesWindowMs

\* C11: every processSignal call persists exactly one Signal row: response i
\* answers the call that stored row i; the row of an accepted signal holds the
\* resolved strategy and, until an execution resolves it, no error; the row
\* of a duplicate or invalid signal holds the error text and is never touched.
C11_OneSignalRowPerSubmit ==
    /\ Len(signals) = Len(responses)
    /\ \A i \in 1..Len(signals) :
           /\ signals[i].id = i
           /\ responses[i].signalId = i
           /\ IF Accepted(i)
              THEN /\ signals[i].strategy_id = responses[i].strategyId
                   /\ signals[i].updates = 0
                          => signals[i].error_message = "" /\ signals[i].processed
              ELSE /\ signals[i].error_message = responses[i].error
                   /\ signals[i].error_message
                          \in {"Duplicate signal", "Price is required for limit orders"}
                   /\ ~signals[i].processed
                   /\ signals[i].strategy_id = 0
                   /\ signals[i].updates = 0

\* C11 witness: an accepted, a duplicate and an invalid submission, one row each
C11_Witness ==
    /\ Len(signals) = 3
    /\ \E i, j, k \in 1..3 :
           /\ Accepted(i) /\ signals[i].updates = 0 /\ signals[i].strategy_id # 0
           /\ Duplicate(j) /\ signals[j].error_message = "Duplicate signal"
           /\ responses[k].status = 400
           /\ signals[k].error_message = "Price is required for limit orders"
(***************************************************************************)
(* Properties: risk gating                                                 *)
(***************************************************************************)
DisabledRejection(t) ==
    /\ tasks[t].outcome = "risk"
    /\ orders[tasks[t].orderId].error_message = "Trading is disabled"

RejectionReason(task, ords) ==
    IF task.outcome = "risk" THEN ords[task.orderId].error_message ELSE ""

\* the settings in force: every persisted override over its static default
EffectiveRiskConfig ==
    [enabled |-> config.enabled,
     maxPositionSizePercent |->
         getConfigValue(config.maxPositionSizePercent, Num(MaxPositionSizePercent)),
     maxTotalExposurePercent |->
         getConfigValue(config.maxTotalExposurePercent, Num(MaxTotalExposurePercent)),
     maxDailyLoss |-> getConfigValue(config.maxDailyLoss, Num(MaxDailyLoss))]

EffectiveDefaultPositionSizePercent ==
    getConfigValue(config.defaultPositionSizePercent, Num(DefaultPositionSizePercent))

\* C13: a sizing or a risk check that begins once an override is persisted
\* uses the overridden value: the check that starts in a step reads the
\* settings in force before the step, and a quantity sized in a step is the
\* persisted defaultPositionSizePercent of the balance.
C13_OverrideUsedAtOnce ==
    [][\A t \in 1..Len(tasks') :
           /\ (tasks'[t].pc = "risk" /\ (t > Len(tasks) \/ tasks[t].pc # "risk"))
                  => tasks'[t].riskConfig = EffectiveRiskConfig
           /\ (t <= Len(tasks) /\ tasks[t].pc = "size" /\ tasks'[t].quantity # NullNum)
                  => \E b \in RiskBalances :
                         tasks'[t].quantity =
                             PositionSizeAt(b, Num(10), EffectiveDefaultPositionSizePercent)]_vars

\* the risk check of task t ran on the answers of the gateway
RiskChecked(t) == tasks[t].availableBalance # NullNum

PositionSizeRejection(t) ==
    RejectionReason(tasks[t], orders) = "Position size exceeds max"

\* C14: an order whose notional is exactly maxPositionSizePercent of the
\* available balance is not rejected by the position-size gate, and one whose
\* notional is strictly above it is rejected with 'Position size ... exceeds max'.
C14_PositionSizeBoundary ==
    \A t \in 1..Len(tasks) :
        RiskChecked(t) =>
            LET notional100 == RMul(RMul(tasks[t].quantity, tasks[t].currentPrice), Num(100))
                limit == RMul(tasks[t].riskConfig.maxPositionSizePercent,
                              tasks[t].availableBalance)
            IN  /\ notional100 = limit => ~PositionSizeRejection(t)
                /\ RLt(limit, notional100) => PositionSizeRejection(t)

\* C15: the daily-loss gate rejects an order only when the realized P&L of
\* the positions closed today is a net loss of more than maxDailyLoss; a net
\* profit never makes it reject.
C15_DailyLossOnlyOnLoss ==
    [][\A t \in 1..Len(tasks) :
           (tasks[t].pc = "risk" /\ tasks'[t].pc # "risk"
                /\ RejectionReason(tasks'[t], orders') = "Daily loss exceeds max")
               => RLt(RAdd(getDailyLoss(positions), tasks[t].riskConfig.maxDailyLoss),
                      Num(0))]_vars

\* C16: when the order of a close signal for a symbol with an OPEN position
\* is FILLED, no OPEN position remains for the symbol.
C16_CloseLeavesNoOpenPosition ==
    [][\A t \in 1..Len(tasks) :
           (/\ tasks[t].pc = "place" /\ tasks[t].signal.action = "close"
            /\ OpenPositionIds(positions, tasks[t].signal.symbol) # {}
            /\ tasks'[t].outcome = "ok"
            /\ orders'[tasks'[t].orderId].status = "FILLED")
               => OpenPositionIds(positions', tasks[t].signal.symbol) = {}]_vars

(***************************************************************************)
(* Properties: the webhook response                                        *)
(***************************************************************************)
Acknowledged(resp, signalId) ==
    signalId \in 1..Len(resp) /\ resp[signalId].status = 200

\* C17: the 200 acknowledgment of an accepted signal is sent before any
\* execution step of the signal: an execution exists only for a signal whose
\* 200 response is sent, every step of an execution finds the response sent
\* before it, and no step, whatever its outcome, changes a response sent.
C17_AckBeforeExecution ==
    [][/\ SubSeq(responses', 1, Len(responses)) = responses
       /\ \A t \in 1..Len(tasks') :
              FromSignal(tasks'[t]) =>
                  /\ Acknowledged(responses', tasks'[t].signalId)
                  /\ (t <= Len(tasks) /\ tasks'[t] # tasks[t])
                         => Acknowledged(responses, tasks[t].signalId)]_vars

\* C17 witness: one execution ended with a placed order, another was turned
\* down, and both signals keep their 200 response
C17_Witness ==
    \E t, u \in 1..Len(tasks) :
        /\ tasks[t].kind = "webhook" /\ tasks[t].pc = "done"
        /\ tasks[t].outcome = "ok" /\ tasks[t].placed = 1
        /\ tasks[u].kind = "webhook" /\ tasks[u].pc = "done" /\ tasks[u].outcome # "ok"
        /\ Acknowledged(responses, tasks[t].signalId)
        /\ Acknowledged(responses, tasks[u].signalId)

C19_NoRowWithoutSecret ==
    /\ \A i \in 1..Len(signals) : authenticateWebhook(responses[i].secret)
    /\ \A p \in 1..Len(pendingSignals) :
           authenticateWebhook(responses[pendingSignals[p].signal_id].secret)
    /\ \A t \in 1..Len(tasks) :
           FromSignal(tasks[t]) => authenticateWebhook(responses[tasks[t].signalId].secret)

(***************************************************************************)
(* Properties: gateway retries                                             *)
(***************************************************************************)
\* every attempt of the call so far failed with a transient error
AllTransient(call) ==
    \A i \in 1..Len(call.errors) : call.errors[i] \in TransientCodes

Doubling(delays) ==
    \A i \in 1..Len(delays) :
        delays[i] = IF i = 1 THEN BaseDelay ELSE 2 * delays[i - 1]

\* C20 as stated: a call whose every attempt fails with a transient error is
\* attempted at most 3 times in total
C20_AtMostThreeAttempts ==
    \A c \in 1..Len(calls) : AllTransient(calls[c]) => Len(calls[c].errors) <= 3

\* C20 amended: a call whose every attempt fails with a transient error is
\* attempted at most 4 times in total, the first attempt and maxRetries = 3
\* retries, after delays of 1000, 2000 and 4000 ms, each double the one
\* before; the fourth failure ends the call, which raises that last error.
C20_BoundedRetries ==
    \A c \in 1..Len(calls) :
        AllTransient(calls[c]) =>
            LET call == calls[c]
                failures == Len(call.errors)
            IN  /\ failures <= MaxRetries + 1
                /\ Doubling(call.delays)
                /\ call.pc = "sleep" => Len(call.delays) = failures
                /\ call.pc = "attempt" => Len(call.delays) = failures
                /\ failures = MaxRetries + 1
                       => /\ call.pc = "thrown"
                          /\ call.thrown = call.errors[failures]
                          /\ call.delays = <<1000, 2000, 4000>>
                /\ call.pc = "thrown" => failures = MaxRetries + 1

\* C20 witness: a call gave up after four transient failures and raised the last
C20_Witness ==
    \E c \in 1..Len(calls) :
        /\ calls[c].pc = "thrown" /\ AllTransient(calls[c])
        /\ Len(calls[c].errors) = 4
        /\ calls[c].errors[1] # calls[c].errors[4]
        /\ calls[c].thrown = calls[c].errors[4]

\* C21: the placement call of one execution creates at most one order at the
\* exchange, whatever attempts the gateway makes for it.
C21_AtMostOneExchangeOrder ==
    \A c \in 1..Len(calls) : calls[c].created <= 1

(***************************************************************************)
(* Properties: the outcome of an approval                                  *)
(***************************************************************************)
\* the two outcomes of an approved pending signal
Settled(id) ==
    \/ pendingSignals[id].status = "approved" /\ pendingSignals[id].order_id # 0
    \/ pendingSignals[id].status = "failed" /\ pendingSignals[id].error_message # ""

\* C22: when every gateway call eventually returns, a pending signal that
\* was approved eventually is approved with its order reference stored or
\* failed with a non-empty error text, and a signal that left pending never
\* returns to it.
C22_ApprovalSettles ==
    /\ \A id \in 1..MaxLiveSignals :
           (id \in 1..Len(pendingSignals) /\ pendingSignals[id].status = "approved")
               ~> (id \in 1..Len(pendingSignals) /\ Settled(id))
    /\ [][\A id \in 1..Len(pendingSignals) :
              pendingSignals[id].status # "pending"
                  => pendingSignals'[id].status # "pending"]_vars

\* C22 witness: an approved signal whose execution ended holds the order
\* reference
C22_Witness ==
    \E id \in 1..Len(pendingSignals) :
        /\ pendingSignals[id].status = "approved" /\ pendingSignals[id].order_id # 0
        /\ \E t \in ExecutionsOf(id) : tasks[t].pc = "done" /\ tasks[t].outcome = "ok"

(***************************************************************************)
(* Properties: fills and the ledger                                        *)
(***************************************************************************)
PositionSide(side) == IF side = "BUY" THEN "LONG" ELSE "SHORT"

\* the symbol has an OPEN position on the side opposite to the fill's
OppositeOpen(pos, request) ==
    /\ OpenPositionId(pos, request.symbol) # 0
    /\ pos[OpenPositionId(pos, request.symbol)].side # PositionSide(request.side)

MaxDeletes == 1          \* DELETE /strategies/:id requests
MaxStrategySignals == 2  \* alerts in the strategy administration runs

\* rows whose strategy_id names the strategy: foreign keys are enforced
Referenced(pend, sigs, ords, id) ==
    \/ \E p \in 1..Len(pend) : pend[p].strategy_id = id
    \/ \E i \in 1..Len(sigs) : sigs[i].strategy_id = id
    \/ \E o \in 1..Len(ords) : ords[o].strategy_id = id

\* deleteStrategy removing the row whatever refers to it
deleteStrategy_Unchecked(strats, pend, sigs, ords, id) ==
    IF id \notin 1..Len(strats) \/ strats[id] = NoStrategy
    THEN [strategies |-> strats, outcome |-> "notFound"]
    ELSE [strategies |-> [strats EXCEPT ![id] = NoStrategy], outcome |-> "deleted"]

\* StrategyService.deleteStrategy
deleteStrategy(strats, pend, sigs, ords, id) ==
    IF \E p \in 1..Len(pend) : pend[p].strategy_id = id /\ pend[p].status = "pending"
    THEN [strategies |-> strats, outcome |-> "pendingSignals"]
    ELSE IF id \notin 1..Len(strats) \/ strats[id] = NoStrategy
    THEN [strategies |-> strats, outcome |-> "notFound"]
    ELSE IF Referenced(pend, sigs, ords, id)
    THEN [strategies |-> strats, outcome |-> "constraint"]
    ELSE [strategies |-> [strats EXCEPT ![id] = NoStrategy], outcome |-> "deleted"]

\* AdminController.deleteStrategy: the status the request is answered with
DeleteStatus(outcome) ==
    CASE outcome = "deleted" -> 204
      [] outcome = "notFound" -> 404
      [] outcome = "pendingSignals" -> 400
      [] OTHER -> 500

\* DELETE /strategies/:id
DeleteStrategy(id, limit) ==
    /\ Len(deletions) < limit
    /\ LET r == deleteStrategy(strategies, pendingSignals, signals, orders, id)
       IN  /\ strategies' = r.strategies
           /\ deletions' = Append(deletions, [id |-> id, outcome |-> r.outcome,
                                              status |-> DeleteStatus(r.outcome)])
    /\ UNCHANGED <<calls, clock, recentSignals, signals, pendingSignals, orders,
                   positions, config, tasks, responses>>

StrategyAlerts ==
    {Alert("buy", "Default Manual", "market", NullNum, Num(1)),
     Alert("sell", "", "market", NullNum, Num(1))}

NextStrategy ==
    \/ \E signal \in StrategyAlerts : Webhook(WebhookSecret, signal, MaxStrategySignals)
    \/ \E id \in 1..MaxStrategySignals : ApprovePendingSignal(id)
    \/ \E id \in 1..MaxStrategySignals : RejectPendingSignal(id)
    \/ \E id \in 1..2 : DeleteStrategy(id, MaxDeletes)
    \/ \E id \in 1..2 : ToggleStrategy(id)
    \/ \E t \in 1..(2 * MaxStrategySignals) : RiskReturns(t, TRUE, Num(100000), Num(100))
    \/ \E t \in 1..(2 * MaxStrategySignals) : OrderReturns(t, TRUE, "FILLED", Num(100))

SpecStrategy == Init /\ [][NextStrategy]_vars

(***************************************************************************)
(* C24: a strategy with a pending signal in status pending cannot be       *)
(* deleted: the request is answered with an error, the strategy and the    *)
(* pending signals stay as they were, and no pending signal in status      *)
(* pending ever names a deleted strategy.                                  *)
(***************************************************************************)
HasPending(id) ==
    \E p \in 1..Len(pendingSignals) :
        pendingSignals[p].strategy_id = id /\ pendingSignals[p].status = "pending"

DeleteAnswered(id) ==
    /\ Len(deletions') = Len(deletions) + 1
    /\ deletions'[Len(deletions')].id = id

C24_PendingBlocksDelete ==
    /\ [](\A p \in 1..Len(pendingSignals) :
             pendingSignals[p].status = "pending"
                 => /\ pendingSignals[p].strategy_id \in 1..Len(strategies)
                    /\ strategies[pendingSignals[p].strategy_id] # NoStrategy)
    /\ [][\A id \in 1..Len(strategies) :
             HasPending(id) /\ DeleteAnswered(id)
                 => /\ deletions'[Len(deletions')].status = 400
                    /\ strategies' = strategies
                    /\ pendingSignals' = pendingSignals]_vars

C24_Witness ==
    \E d \in 1..Len(deletions) :
        /\ deletions[d].status = 400
        /\ HasPending(deletions[d].id)
        /\ strategies[deletions[d].id] # NoStrategy

(***************************************************************************)
(* C25: when the risk check rejects, executeFromSignal places nothing,     *)
(* persists one Order row with status REJECTED, risk_passed false and the  *)
(* reason as its error text, records the order and the reason on the       *)
(* Signal, and raises the risk error.                                      *)
(***************************************************************************)
RejectedNow(t) ==
    /\ tasks'[t].outcome = "risk"
    /\ t \in 1..Len(tasks) => tasks[t].outcome = ""

C25_RiskRejectionRecorded ==
    [][\A t \in 1..Len(tasks') :
          RejectedNow(t)
              => LET task == tasks'[t]
                     o == task.orderId
                 IN  /\ task.placed = 0
                     /\ task.rows = 1
                     /\ Len(orders') = Len(orders) + 1
                     /\ o = Len(orders')
                     /\ orders'[o].status = "REJECTED"
                     /\ ~orders'[o].risk_passed
                     /\ orders'[o].binance_order_id = 0
                     /\ orders'[o].error_message # ""
                     /\ task.signalId \in 1..Len(signals')
                     /\ signals'[task.signalId].order_id = o
                     /\ signals'[task.signalId].error_message = orders'[o].error_message
                     /\ ~signals'[task.signalId].processed]_vars

C25_Witness ==
    \E t \in 1..Len(tasks) :
        /\ tasks[t].outcome = "risk"
        /\ orders[tasks[t].orderId].error_message = "Position size exceeds max"
        /\ signals[tasks[t].signalId].order_id = tasks[t].orderId
        /\ signals[tasks[t].signalId].error_message = "Position size exceeds max"

(***************************************************************************)
(* The risk gates on their own: alerts of a small and of a large order     *)
(* meet every combination of settings, ledger and balance.                 *)
(***************************************************************************)
MaxGateSignals == 2   \* alerts in the gate runs

GateAlerts ==
    {Alert("buy", "", "market", NullNum, Num(1)),
     Alert("sell", "", "market", NullNum, Num(20))}

GateBalances == {Num(100), Num(1000)}

NextGates ==
    \/ \E signal \in GateAlerts : Webhook(WebhookSecret, signal, MaxGateSignals)
    \/ \E t \in 1..MaxGateSignals, b \in GateBalances : RiskReturns(t, TRUE, b, Num(10))
    \/ \E t \in 1..MaxGateSignals : OrderReturns(t, TRUE, "FILLED", Num(10))

SpecGates == InitGates /\ [][NextGates]_vars

(***************************************************************************)
(* C26: the gates are evaluated in the order trading-enabled, position     *)
(* size, total exposure, daily loss, sufficient balance, and the reason    *)
(* returned is that of the first gate that fails.                          *)
(***************************************************************************)
\* the order's notional as the check of task t saw it
OrderValue(task) == RMul(task.quantity, task.currentPrice)

PositionSizeFails(task) ==
    FGt(Percent(OrderValue(task), task.availableBalance),
        ToDouble(task.riskConfig.maxPositionSizePercent))

ExposureFails(task, pos) ==
    FGt(Percent(RAdd(getCurrentExposure(pos, task.currentPrice), OrderValue(task)),
                task.availableBalance),
        ToDouble(task.riskConfig.maxTotalExposurePercent))

DailyLossFails(task, pos) ==
    RLt(task.riskConfig.maxDailyLoss, RAbs(getDailyLoss(pos)))

BalanceFails(task) == RLt(task.availableBalance, OrderValue(task))

\* task t leaves the risk check in this step
CheckedNow(t) ==
    /\ t \in 1..Len(tasks)
    /\ tasks[t].pc = "risk"
    /\ tasks'[t].pc # "risk"

\* task t meets the enabled gate in this step
EnabledGateNow(t) ==
    /\ t \in 1..Len(tasks')
    /\ t \in 1..Len(tasks) => tasks[t].pc \in {"start", "size"}
    /\ tasks'[t].pc \notin {"start", "size"}

C26_FirstFailingGateWins ==
    [][\A t \in 1..MaxGateSignals :
          LET task == tasks'[t]
              reason == RejectionReason(task, orders')
          IN  /\ EnabledGateNow(t) /\ task.kind = "webhook"
                  => /\ ~config.enabled => reason = "Trading is disabled"
                     /\ config.enabled => task.pc = "risk" /\ reason = ""
              /\ CheckedNow(t)
                  => /\ tasks[t].riskConfig.enabled
                     /\ reason # "Trading is disabled"
                     /\ reason = "Position size exceeds max" <=> PositionSizeFails(task)
                     /\ reason = "Total exposure exceeds max"
                            <=> ~PositionSizeFails(task) /\ ExposureFails(task, positions)
                     /\ reason = "Daily loss exceeds max"
                            <=> /\ ~PositionSizeFails(task)
                                /\ ~ExposureFails(task, positions)
                                /\ DailyLossFails(task, positions)
                     /\ reason = "Insufficient balance"
                            <=> /\ ~PositionSizeFails(task)
                                /\ ~ExposureFails(task, positions)
                                /\ ~DailyLossFails(task, positions)
                                /\ BalanceFails(task)]_vars

\* a check the position-size gate lets through and every later gate would stop
C26_Witness ==
    \E t \in 1..Len(tasks) :
        /\ RejectionReason(tasks[t], orders) = "Total exposure exceeds max"
        /\ ~PositionSizeFails(tasks[t])
        /\ DailyLossFails(tasks[t], positions)
        /\ BalanceFails(tasks[t])

(***************************************************************************)
(* C27: every order executeFromSignal persists with status FILLED, market  *)
(* or limit, has its fill handed to the position ledger exactly once, and  *)
(* an order persisted with another status is never handed to the ledger.   *)
(***************************************************************************)
C27_FilledOrdersReachLedger ==
    \A t \in 1..Len(tasks) :
        FromSignal(tasks[t]) /\ tasks[t].outcome = "ok"
            => tasks[t].fills = IF orders[tasks[t].orderId].status = "FILLED" THEN 1 ELSE 0

(***************************************************************************)
(* Webhook executions on a database that already holds a position: the     *)
(* fills of market orders meet a ledger they can and cannot extend.        *)
(***************************************************************************)
MaxFillSignals == 2   \* alerts in the fill runs

FillAlerts ==
    {Alert("buy", "", "market", NullNum, Num(1)),
     Alert("sell", "", "market", NullNum, Num(1))}

NextFillSignals ==
    \/ \E signal \in FillAlerts : Webhook(WebhookSecret, signal, MaxFillSignals)
    \/ \E t \in 1..MaxFillSignals, ok \in BOOLEAN, b \in Balances :
           RiskReturns(t, ok, b, Num(100))
    \/ \E t \in 1..MaxFillSignals, ok \in BOOLEAN, status \in GatewayStatuses, p \in Prices :
           OrderReturns(t, ok, status, p)

SpecFillSignals == InitFill /\ [][NextFillSignals]_vars

(***************************************************************************)
(* C28: a failure inside fill handling never undoes the placed order: the  *)
(* Order row persisted with the exchange's identifier and status stays as  *)
(* it was written, executeFromSignal returns that order id, and the Signal *)
(* is recorded as successful.                                              *)
(***************************************************************************)
FillFailsNow(t) ==
    /\ t \in 1..Len(tasks)
    /\ ~tasks[t].fillThrew
    /\ tasks'[t].fillThrew

C28_FillFailureKeepsOrder ==
    /\ [][\A t \in 1..MaxFillSignals :
             FillFailsNow(t)
                 => LET task == tasks'[t]
                        o == Len(orders')
                    IN  /\ Len(orders') = Len(orders) + 1
                        /\ orders'[o].status = "FILLED"
                        /\ orders'[o].binance_order_id # 0
                        /\ orders'[o].error_message = ""
                        /\ task.outcome = "ok"
                        /\ task.orderId = o
                        /\ signals'[task.signalId].processed
                        /\ signals'[task.signalId].order_id = o
                        /\ signals'[task.signalId].error_message = ""
                        /\ positions' = positions]_vars
    /\ [][\A o \in 1..Len(orders) : orders'[o] = orders[o]]_vars

C28_Witness ==
    \E t \in 1..Len(tasks) :
        /\ tasks[t].fillThrew
        /\ tasks[t].kind = "webhook"
        /\ tasks[t].outcome = "ok"
        /\ orders[tasks[t].orderId].status = "FILLED"
        /\ signals[tasks[t].signalId].processed

(***************************************************************************)
(* C29: each executeFromSignal call updates the originating Signal's       *)
(* processed / order reference / error fields exactly once, whether it     *)
(* ends in success, in a risk rejection, in a gateway failure during       *)
(* placement or in a failure while reading price or balance.               *)
(***************************************************************************)
\* the executions for signal i that end in this step
EndingNow(i) ==
    {t \in 1..Len(tasks') :
        /\ FromSignal(tasks'[t])
        /\ tasks'[t].signalId = i
        /\ tasks'[t].outcome # ""
        /\ t \in 1..Len(tasks) => tasks[t].outcome = ""}

UpdatesBefore(i) == IF i \in 1..Len(signals) THEN signals[i].updates ELSE 0

C29_OneSignalUpdatePerExecution ==
    [][\A i \in 1..Len(signals') :
          signals'[i].updates = UpdatesBefore(i) + Cardinality(EndingNow(i))]_vars

\* an execution that failed before placement (no placement call, no risk
\* verdict), one that failed or succeeded after it
C29_Witness ==
    \E t \in 1..Len(tasks), u \in 1..Len(tasks) :
        /\ FromSignal(tasks[t]) /\ FromSignal(tasks[u])
        /\ tasks[t].outcome = "error" /\ tasks[t].placed = 0
        /\ signals[tasks[t].signalId].updates = 1
        /\ tasks[u].outcome \in {"ok", "error"} /\ tasks[u].placed = 1
        /\ signals[tasks[u].signalId].updates = 1

(***************************************************************************)
(* C30: the strategy resolved for a signal is always an enabled strategy   *)
(* or none: a named strategy that is disabled or missing is never used,    *)
(* and the fallback is the enabled default automatic strategy, else the    *)
(* first enabled automatic strategy, else no strategy.                     *)
(***************************************************************************)
\* a signal is routed in this step
RoutedNow == Len(responses') = Len(responses) + 1

C30_ResolvedStrategyEnabled ==
    [][RoutedNow
          => LET s == responses'[Len(responses')].strategyId
             IN  s # 0 => strategies[s].enabled]_vars

(***************************************************************************)
(* C31: an Order row created for an automatically executed signal carries  *)
(* the strategy reference Signal Intake resolved for the signal, and is    *)
(* executed on that strategy's venue kind with that strategy's leverage.   *)
(***************************************************************************)
C31_OrderCarriesResolvedStrategy ==
    \A t \in 1..Len(tasks) :
        tasks[t].kind = "webhook" /\ tasks[t].orderId # 0
            => LET s == signals[tasks[t].signalId].strategy_id
                   o == orders[tasks[t].orderId]
               IN  /\ o.strategy_id = s
                   /\ s # 0 => o.trading_type = strategies[s].trading_type

(***************************************************************************)
(* C32: a validation-class or insufficient-balance-class gateway failure   *)
(* is never retried: the exchange call is invoked exactly once and the     *)
(* error is raised at once, without a backoff delay.                       *)
(***************************************************************************)
ValidationOrBalanceCodes == {"INVALID_ORDER", "INSUFFICIENT_BALANCE"}

C32_NonRetryableRaisedAtOnce ==
    \A c \in 1..Len(calls) :
        \A k \in 1..Len(calls[c].errors) :
            calls[c].errors[k] \in ValidationOrBalanceCodes
                => /\ k = Len(calls[c].errors)
                   /\ calls[c].pc = "thrown"
                   /\ calls[c].thrown = calls[c].errors[k]
                   /\ calls[c].attempt = k - 1
                   /\ Len(calls[c].delays) = k - 1

\* the first attempt fails with such an error: one invocation, no delay
C32_Witness ==
    \E c \in 1..Len(calls) :
        /\ calls[c].errors \in {<<"INVALID_ORDER">>, <<"INSUFFICIENT_BALANCE">>}
        /\ calls[c].pc = "thrown"
        /\ calls[c].attempt = 0
        /\ calls[c].delays = << >>

(***************************************************************************)
(* Fills on both venues: market orders on the spot and on the leveraged    *)
(* venue, buying, selling less than is open and selling more.              *)
(***************************************************************************)
MaxVenueOrders == 3   \* market orders in the venue runs

VenueRequests ==
    {Request("BTCUSDT", "BUY", Num(2), "FUTURE"),
     [Request("BTCUSDT", "BUY", Num(1), "FUTURE") EXCEPT !.leverage = 10],
     Request("BTCUSDT", "SELL", Num(1), "FUTURE"),
     Request("BTCUSDT", "SELL", Num(3), "FUTURE"),
     Request("ETHUSDT", "BUY", Num(1), "SPOT"),
     Request("ETHUSDT", "SELL", Num(1), "SPOT")}

\* the orders are started one after the other: the fills reach the ledger in
\* every order and at every price
NextVenues ==
    \/ \E request \in VenueRequests :
           Len(tasks) < MaxVenueOrders /\ InFlight = {} /\ ExecuteMarketOrder(request)
    \/ \E t \in 1..MaxVenueOrders, ok \in BOOLEAN : LeverageReturns(t, ok)
    \/ \E t \in 1..MaxVenueOrders, p \in Prices : OrderReturns(t, TRUE, "FILLED", p)

SpecVenues == Init /\ [][NextVenues]_vars

(***************************************************************************)
(* C33: no sequence of fills ever creates a SHORT position: a SELL fill is *)
(* always treated as closing, so a SELL fill for a symbol with no OPEN     *)
(* position creates no position and changes nothing in the ledger, on the  *)
(* spot and on the leveraged venue alike.                                  *)
(***************************************************************************)
\* the fill of task t is handed to the ledger in this step
FilledNow(t) ==
    /\ t \in 1..Len(tasks)
    /\ tasks'[t].fills = tasks[t].fills + 1

C34_LiquidationPriceSetOnce ==
    /\ [](\A i \in 1..Len(positions) :
             positions[i].trading_type = "SPOT"
                 => positions[i].liquidation_price = NullNum /\ positions[i].leverage = 0)
    /\ [][\A i \in 1..Len(positions') :
             IF i \in 1..Len(positions)
             THEN /\ positions'[i].liquidation_price = positions[i].liquidation_price
                  /\ positions'[i].side = positions[i].side
                  /\ positions'[i].leverage = positions[i].leverage
                  /\ positions'[i].entry_order_id = positions[i].entry_order_id
             ELSE positions'[i].trading_type = "FUTURE"
                      => /\ positions'[i].leverage # 0
                         /\ positions'[i].liquidation_price =
                                RMul(positions'[i].entry_price,
                                     RSub(Num(1), Rat(1, positions'[i].leverage)))]_vars

\* a leveraged position re-averaged at another price and partially closed
C34_Witness ==
    \E i \in 1..Len(positions) :
        /\ positions[i].trading_type = "FUTURE"
        /\ positions[i].status = "OPEN"
        /\ positions[i].realized_pnl # Num(0)
        /\ positions[i].liquidation_price #
               RMul(positions[i].entry_price, RSub(Num(1), Rat(1, positions[i].leverage)))

(***************************************************************************)
(* C38: the realized P&L booked by a closing fill is computed on the       *)
(* quantity actually reduced, which never exceeds the open quantity: a     *)
(* SELL fill larger than the OPEN quantity closes the position with P&L    *)
(* (exitPrice - entryPrice) * openQty.                                     *)
(***************************************************************************)
\* position i is closed in this step
ClosedNow(i) ==
    /\ positions[i].status = "OPEN"
    /\ positions'[i].status = "CLOSED"

C38_PnLOnReducedQuantity ==
    [][\A i \in 1..Len(positions) :
          ClosedNow(i) /\ positions[i].side = "LONG"
              => positions'[i].realized_pnl =
                     RMul(RSub(positions'[i].exit_price, positions[i].entry_price),
                          positions[i].quantity)]_vars

(***************************************************************************)
(* C35: the duplicate check and the recording of the fingerprint happen    *)
(* without a suspension point between them: of two webhook submissions     *)
(* with the same fingerprint handled by one process, in no interleaving    *)
(* are both accepted within the window.                                    *)
(***************************************************************************)
C35_NeverBothAccepted ==
    \A i \in 1..Len(responses) : \A j \in 1..Len(responses) :
        /\ i < j
        /\ Accepted(i) /\ Accepted(j)
        /\ Fingerprint(i) = Fingerprint(j)
        => signals[j].received_at - signals[i].received_at >= PreventDuplicatesWindowMs

\* two submissions with one fingerprint at the same instant: one is accepted
C35_Witness ==
    \E i \in 1..Len(responses) : \E j \in 1..Len(responses) :
        /\ i < j
        /\ Fingerprint(i) = Fingerprint(j)
        /\ signals[i].received_at = signals[j].received_at
        /\ Accepted(i)
        /\ Duplicate(j)

(***************************************************************************)
(* C36: a submission rejected as duplicate or invalid does not refresh the *)
(* fingerprint's last-seen time: the window is measured from the last      *)
(* accepted signal, so of a stream of identical signals sent at intervals  *)
(* shorter than the window one is accepted each time the window since the  *)
(* last accepted one has elapsed.                                          *)
(***************************************************************************)
C36_RejectionKeepsLastSeen ==
    /\ [][RoutedNow /\ responses'[Len(responses')].status # 200
             => recentSignals' = recentSignals]_vars
    /\ [](\A j \in 1..Len(responses) :
             (validateSignal(signals[j].payload) = "" /\ EarlierAccepted(j) # {}) =>
                 LET gap == signals[j].received_at
                              - signals[Max(EarlierAccepted(j))].received_at
                 IN  gap >= PreventDuplicatesWindowMs => Accepted(j))

\* accepted, then a duplicate inside the window, then accepted again when the
\* window since the accepted one is over but not the window since the duplicate
C36_Witness ==
    /\ Len(responses) = 3
    /\ Fingerprint(1) = Fingerprint(2) /\ Fingerprint(2) = Fingerprint(3)
    /\ Accepted(1)
    /\ Duplicate(2)
    /\ Accepted(3)
    /\ signals[3].received_at - signals[1].received_at >= PreventDuplicatesWindowMs
    /\ signals[3].received_at - signals[2].received_at < PreventDuplicatesWindowMs

(***************************************************************************)
(* Automatic executions suspended at the gateway at the same time: buys of *)
(* two symbols under a persisted total-exposure limit of 8 % of a balance  *)
(* of 1000, at a constant price of 10.                                     *)
(***************************************************************************)
MaxExposureSignals == 3   \* webhook submissions in the exposure runs

ExposureAlerts ==
    {Alert("buy", "", "market", NullNum, Num(5)),
     [Alert("buy", "", "market", NullNum, Num(5)) EXCEPT !.symbol = "ETHUSDT"]}

ExposureBalance == Num(1000)
ExposurePrice == Num(10)

\* the process starts with trading enabled and the limit persisted
InitExposure ==
    /\ clock = 1
    /\ recentSignals = [k \in Keys |-> 0]
    /\ \E manualEnabled \in BOOLEAN : strategies = SeededStrategies(manualEnabled)
    /\ signals = << >>
    /\ pendingSignals = << >>
    /\ orders = << >>
    /\ positions = << >>
    /\ config = [enabled |-> TRUE, defaultPositionSizePercent |-> NullNum,
                 maxPositionSizePercent |-> NullNum,
                 maxTotalExposurePercent |-> Num(8), maxDailyLoss |-> NullNum]
    /\ tasks = << >>
    /\ responses = << >>
    /\ calls = << >>
    /\ deletions = << >>

NextExposure ==
    \/ Tick(MaxIntakeClock)
    \/ \E signal \in ExposureAlerts : Webhook(WebhookSecret, signal, MaxExposureSignals)
    \/ \E t \in 1..MaxExposureSignals :
           RiskReturns(t, TRUE, ExposureBalance, ExposurePrice)
    \/ \E t \in 1..MaxExposureSignals : OrderReturns(t, TRUE, "FILLED", ExposurePrice)

SpecExposure == InitExposure /\ [][NextExposure]_vars

(***************************************************************************)
(* C37: automatic executions that interleave at their suspension points    *)
(* cannot both pass the total-exposure gate when the existing exposure     *)
(* plus their combined notional exceeds maxTotalExposurePercent of the     *)
(* balance: at constant prices the notional of all OPEN positions stays    *)
(* within the limit.                                                       *)
(***************************************************************************)
C37_ExposureWithinLimit ==
    ~FGt(Percent(getCurrentExposure(positions, ExposurePrice), ExposureBalance),
         ToDouble(getRiskConfig(config).maxTotalExposurePercent))

(***************************************************************************)
(* C39: whenever a call of executeFromSignal has written an Order row (an  *)
(* order placed, a risk rejection, or the REJECTED row of an automatic     *)
(* signal whose gateway call failed), the Signal's order reference points  *)
(* to an Order row once the call has returned or thrown.                   *)
(***************************************************************************)
C39_SignalReferencesOrderRow ==
    \A t \in 1..Len(tasks) :
        (FromSignal(tasks[t]) /\ tasks[t].pc = "done" /\ tasks[t].rows >= 1) =>
            signals[tasks[t].signalId].order_id \in 1..Len(orders)

(***************************************************************************)
(* C40: closePositionWithOrder places an order only when the position it   *)
(* is called for is OPEN, a SELL for a LONG and a BUY for a SHORT; called  *)
(* for a position that is already CLOSED it places no order.  Every call   *)
(* that starts a closing order therefore finds an OPEN position of the     *)
(* order's symbol that the order's side closes.                            *)
(***************************************************************************)
CloseStartedNow ==
    /\ Len(tasks') = Len(tasks) + 1
    /\ tasks'[Len(tasks')].kind = "close"

C40_CloseOnlyOpenPosition ==
    [][CloseStartedNow =>
          LET request == tasks'[Len(tasks')].request
          IN  \E id \in 1..Len(positions) :
                  /\ positions[id].status = "OPEN"
                  /\ positions[id].symbol = request.symbol
                  /\ request.side = IF positions[id].side = "LONG" THEN "SELL" ELSE "BUY"]_vars

====
